---- MODULE Spec2Model ----
(***************************************************************************)
(* Model of the reactory-telemetry module:                                 *)
(*   - ReactoryTelemetry (the context telemetry wrapper) on top of the     *)
(*     OpenTelemetry meter it imports;                                     *)
(*   - StatisticHelpers (createHistogram, toPrometheusFormat);             *)
(*   - GraphQLMetricsCollector.                                            *)
(* Strings that the code takes apart or concatenates are sequences of      *)
(* tokens; attribute objects are sequences of <<key, value>> pairs in      *)
(* insertion order, as a JavaScript object enumerates them.                *)
(***************************************************************************)
EXTENDS Integers, Sequences, FiniteSets, TLC

VARIABLES
  context,            \* ReactoryTelemetry.context (partner, user)
  env,                \* process.env entries the module reads
  deps,               \* how the collaborators behave: the statistics service and the meter
  persistenceEnabled, \* ReactoryTelemetry.persistenceEnabled
  counters,           \* ReactoryTelemetry.counters: fullName -> instrument
  histograms,         \* ReactoryTelemetry.histograms
  upDownCounters,     \* ReactoryTelemetry.upDownCounters
  gauges,             \* ReactoryTelemetry.gauges: fullName -> instrument (with its values Map)
  instruments,        \* instruments the meter has handed out, in creation order
  sums,               \* meter storage of counters / up-down counters: series -> accumulated value
  recorded,           \* meter storage of histograms: series -> recorded values
  handles,            \* handle objects returned to callers
  sink,               \* samples handed to publishStatistics, in call order
  pending,            \* persistMetric calls suspended at their await of publishStatistics
  unhandled,          \* promises of persistMetric that were rejected (nobody handles them)
  disposed,           \* number of dispose() calls so far
  updates,            \* number of add / record / set calls so far
  added,              \* per counter series, the sum of the non-negative deltas callers passed to add
  lastSet,            \* per gauge instrument and label set, the value of the last set
  args,               \* StatisticHelpers: the arguments of the createHistogram call under study
  stat,               \* StatisticHelpers: the statistic createHistogram returned
  lines,              \* StatisticHelpers: the lines toPrometheusFormat returned for stat
  operationDurations, \* GraphQLMetricsCollector.operationDurations
  operationCounts,    \* GraphQLMetricsCollector.operationCounts
  errorCounts,        \* GraphQLMetricsCollector.errorCounts
  records,            \* number of recordOperation calls so far
  calls,              \* per (operation name, type), the recordOperation calls since the last reset
  snapshot,           \* the statistics the latest getAllMetrics returned, each with the Map key it was made from
  prevSnapshot,       \* the same for the getAllMetrics before that
  resetPending,       \* reset() was called after the latest getAllMetrics
  resetBetween,       \* reset() was called between the two latest getAllMetrics
  requests,           \* the HTTP requests that entered a metrics middleware, in order of entry
  response,           \* the response object of the GET /metrics request
  scrape,             \* what the latest scrape of the observable gauges collected
  callbacks,          \* improved middleware: per process gauge, the callbacks registered on it
  timers,             \* the invocations of measure and measureAsync, in call order
  last                \* the last operation performed and what its caller got back

telemetryVars == <<context, env, deps, persistenceEnabled, counters, histograms, upDownCounters,
                   gauges, instruments, sums, recorded, handles, sink, pending, unhandled,
                   disposed, updates, added, lastSet>>

helperVars == <<args, stat, lines>>

collectorVars == <<operationDurations, operationCounts, errorCounts, records, calls, snapshot,
                   prevSnapshot, resetPending, resetBetween>>

httpVars == <<requests, response, scrape, callbacks, timers>>

vars == <<telemetryVars, helperVars, collectorVars, httpVars, last>>

----------------------------------------------------------------------------
(* Bounds of the model *)

MaxInstruments == 2   \* meter.create* calls
MaxUpdates == 2       \* add / record / set calls
MaxDispose == 1       \* dispose() calls
MaxObservations == 4  \* observations passed to createHistogram
MaxBuckets == 3       \* bucket boundaries passed to createHistogram
MaxRecords == 3       \* recordOperation calls
MaxRequests == 4      \* HTTP requests that enter a metrics middleware
MaxEnds == 2          \* invocations of res.end on one response
MaxTicks == 3         \* ticks of the two timers of the improved middleware
MaxTimers == 3        \* invocations of measure and measureAsync

----------------------------------------------------------------------------
(* Values *)

Undefined == "undefined"

Min(a, b) == IF a <= b THEN a ELSE b

RECURSIVE SumSeq(_)
SumSeq(s) == IF s = <<>> THEN 0 ELSE Head(s) + SumSeq(Tail(s))

\* Attribute objects: sequences of <<key, value>> with distinct keys.
HasKey(o, k) == \E i \in 1..Len(o) : o[i][1] = k

GetKey(o, k) == o[CHOOSE i \in 1..Len(o) : o[i][1] = k][2]

\* ObjAssign that adds an entry whether or not the key is there.
ObjAssign_append(o, k, v) == Append(o, <<k, v>>)

\* o[k] = v on an object or Map.set(k, v): an existing key keeps its position.
ObjAssign(o, k, v) ==
  IF HasKey(o, k)
  THEN [i \in 1..Len(o) |-> IF o[i][1] = k THEN <<k, v>> ELSE o[i]]
  ELSE Append(o, <<k, v>>)

KeysOf(o) == {o[i][1] : i \in 1..Len(o)}

\* The attribute keys of the model in lexicographic order.
KeyOrder == <<"method", "partner_id", "partner_name", "path", "route", "status_class",
              "status_code", "user_id">>

\* Attribute values are strings, kept as sequences of characters.
GET == <<"G">>
POST == <<"P">>
Acme == <<"a", "c", "m", "e">>
PartnerA == <<"p", "1">>
PartnerB == <<"p", "2">>
UserA == <<"6", "5", "f", "0", "0", "0", "0", "1", "a", "b">>

\* The attribute objects callers pass, among them one pair of objects that
\* hold the same pairs in the two insertion orders.
RawLabels ==
  { <<>>,
    << <<"method", GET>> >>,
    << <<"method", POST>> >>,
    << <<"partner_id", PartnerB>> >>,
    << <<"method", GET>>, <<"partner_id", PartnerB>> >>,
    << <<"partner_id", PartnerB>>, <<"method", GET>> >> }

Deltas == {-1, 1, 2}

MetricNames == {<<"req">>, <<"mem">>}

\* options.persist: omitted, true or false
PersistOptions == {"default", "true", "false"}

\* hasPartnerId: context.partner._id is defined
Contexts ==
  { [hasPartner |-> FALSE, hasPartnerId |-> FALSE, partnerId |-> <<>>, partnerName |-> <<>>,
     hasUser |-> FALSE, userId |-> <<>>],
    [hasPartner |-> TRUE, hasPartnerId |-> TRUE, partnerId |-> PartnerA, partnerName |-> Acme,
     hasUser |-> FALSE, userId |-> <<>>],
    [hasPartner |-> TRUE, hasPartnerId |-> TRUE, partnerId |-> PartnerA, partnerName |-> Acme,
     hasUser |-> TRUE, userId |-> UserA] }

\* A context whose partner has no _id: context.partner._id.toString() throws.
FaultyContexts ==
  { [hasPartner |-> TRUE, hasPartnerId |-> FALSE, partnerId |-> <<>>, partnerName |-> Acme,
     hasUser |-> FALSE, userId |-> <<>>] }

\* Number values that are not finite, and the test for them.
NaN == 7000000
PosInfinity == 9000000
NegInfinity == -9000000

IsFinite(value) == value \notin {NaN, PosInfinity, NegInfinity}

\* The statistics service as persistMetric finds it.
Services == {"ok", "missing", "getServiceThrows", "publishThrows", "publishRejects", "slow"}

\* The collaborators when nothing fails.
NoFaults == [service |-> "ok", meterThrows |-> FALSE]

----------------------------------------------------------------------------
(* ReactoryTelemetry helpers *)

UserIdLen == 8

\* String.prototype.substring(0, n)
Substring0(s, n) == SubSeq(s, 1, Min(n, Len(s)))

\* Objects live on a heap, a sequence of objects indexed by address.
\* { ...attributes }: the address of the object the spread evaluates to.
\* SpreadTarget that hands back the address of its source.
SpreadTarget_alias(heap, source) == source

SpreadTarget(heap, source) == Len(heap) + 1

\* { ...heap[source] } evaluated on the heap: a new object with the source's properties
Spread(heap, source) ==
  IF SpreadTarget(heap, source) > Len(heap) THEN Append(heap, heap[source]) ELSE heap

\* heap[target][k] = v
HeapAssign(heap, target, k, v) == [heap EXCEPT ![target] = ObjAssign(@, k, v)]

\* enrichAttributes run on a heap whose only object, at address 1, is the
\* caller's: the caller's object and the object returned, after the call.
enrichAttributesOnHeap(attributes) ==
  LET heap0 == <<attributes>>
      enriched == SpreadTarget(heap0, 1)
      heap1 == Spread(heap0, 1)
      heap2 == IF context.hasPartner
               THEN HeapAssign(HeapAssign(heap1, enriched, "partner_id", context.partnerId),
                               enriched, "partner_name", context.partnerName)
               ELSE heap1
      heap3 == IF context.hasUser
               THEN HeapAssign(heap2, enriched, "user_id", Substring0(context.userId, UserIdLen))
               ELSE heap2
  IN [attributes |-> heap3[1], enriched |-> heap3[enriched]]

enrichAttributes(attributes) == enrichAttributesOnHeap(attributes).enriched

\* context.partner._id.toString() on a partner without _id throws a TypeError.
enrichThrows == context.hasPartner /\ ~context.hasPartnerId

DefaultPrefix == <<"reactory">>

prefixMetricName(name) ==
  LET prefix == IF env.REACTORY_METRICS_PREFIX = <<>> THEN DefaultPrefix
                ELSE env.REACTORY_METRICS_PREFIX
  IN prefix \o <<"_">> \o name

\* An attribute whose value is undefined.
UndefinedValue == <<Undefined>>

\* JSON.stringify of an attribute object whose values are strings: the pairs in
\* insertion order, without the attributes whose value is undefined.
\* JSON.parse gives that object back.
JSONstringify(o) == SelectSeq(o, LAMBDA p : p[2] # UndefinedValue)

JSONparse(s) == s

\* shouldPersist in which an option that is given decides alone.
shouldPersist_optionDecides(persistOption) ==
  IF persistOption = "default" THEN persistenceEnabled ELSE persistOption = "true"

shouldPersist(persistOption) == persistOption # "false" /\ persistenceEnabled

----------------------------------------------------------------------------
(* The OpenTelemetry meter (imported from prometheus/meter) *)

\* Attribute sets are identified by their pairs sorted by key.
hashAttributes(o) ==
  LET present == SelectSeq(KeyOrder, LAMBDA k : HasKey(o, k))
  IN [i \in 1..Len(present) |-> <<present[i], GetKey(o, present[i])>>]

SeriesKey(kind, fullName, attributes) == <<kind, fullName, hashAttributes(attributes)>>

\* MeterAdd without the sign check of a Counter.
MeterAdd_signed(store, kind, fullName, value, attributes) ==
  LET key == SeriesKey(kind, fullName, attributes)
  IN IF key \in DOMAIN store THEN [store EXCEPT ![key] = @ + value]
     ELSE store @@ (key :> value)

\* MeterAdd that keeps one series per metric, whatever the attributes.
MeterAdd_oneSeries(store, kind, fullName, value, attributes) ==
  LET key == SeriesKey(kind, fullName, <<>>)
  IN IF kind = "counter" /\ value < 0 THEN store
     ELSE IF key \in DOMAIN store THEN [store EXCEPT ![key] = @ + value]
     ELSE store @@ (key :> value)

\* Counter.add / UpDownCounter.add of the SDK: a Counter ignores a negative value.
MeterAdd(store, kind, fullName, value, attributes) ==
  LET key == SeriesKey(kind, fullName, attributes)
  IN IF kind = "counter" /\ value < 0 THEN store
     ELSE IF key \in DOMAIN store THEN [store EXCEPT ![key] = @ + value]
     ELSE store @@ (key :> value)

\* Histogram.record of the SDK: a negative value is ignored.
MeterRecord(store, fullName, value, attributes) ==
  LET key == SeriesKey("histogram", fullName, attributes)
  IN IF value < 0 THEN store
     ELSE IF key \in DOMAIN store THEN [store EXCEPT ![key] = Append(@, value)]
     ELSE store @@ (key :> <<value>>)

\* Histogram.record with a value that is not a number: the versions of the SDK
\* differ, one drops NaN and one records it.
MeterRecordOutcomes(store, fullName, value, attributes) ==
  {MeterRecord(store, fullName, value, attributes)} \cup (IF value = NaN THEN {store} ELSE {})

\* meter.create*: a new instrument object; instruments of one kind and name
\* write to the same storage.
NewInstrument(kind, fullName, epoch) ==
  [kind |-> kind, name |-> fullName, values |-> <<>>, epoch |-> epoch]

\* The value a scrape exports for a counter / up-down counter series.
Exported(kind, fullName, attributes) ==
  LET key == SeriesKey(kind, fullName, attributes)
  IN IF key \in DOMAIN sums THEN sums[key] ELSE 0

\* The callback of the observable gauge at a scrape: the entries of the values
\* Map are observed in insertion order, and the meter keeps one value per
\* attribute set, the one observed last.
RECURSIVE ObserveAll(_, _)
ObserveAll(values, buffer) ==
  IF values = <<>> THEN buffer
  ELSE LET attributes == hashAttributes(JSONparse(Head(values)[1]))
       IN ObserveAll(Tail(values),
                     [k \in DOMAIN buffer \cup {attributes} |->
                        IF k = attributes THEN Head(values)[2] ELSE buffer[k]])

\* What a scrape exports for gauge instrument inst: attribute set -> value
GaugeObserved(inst) == ObserveAll(instruments[inst].values, <<>>)

\* The same callback beside an observe (or a JSON.parse) that throws for the
\* entries whose key is in failing: the error leaves forEach and the callback,
\* and the entries after it are not reached.
CallbackRun(values, failing) ==
  LET bad == {i \in 1..Len(values) : values[i][1] \in failing}
      reached == IF bad = {} THEN Len(values)
                 ELSE (CHOOSE i \in bad : \A j \in bad : i <= j) - 1
  IN [threw |-> bad # {}, buffer |-> ObserveAll(SubSeq(values, 1, reached), <<>>)]

\* What the meter collects from a callback run: the versions of the SDK differ
\* on a callback that threw, one drops its observations and one keeps those
\* made before the error.
CallbackOutcomes(values, failing) ==
  LET run == CallbackRun(values, failing)
  IN {run.buffer} \cup (IF run.threw THEN {<<>>} ELSE {})

----------------------------------------------------------------------------
(* Construction *)

\* option: the persist option of the handle; raw, passed: the caller's attributes
\* object before and after the call; threw: an error was raised inside the
\* call; repeat: the call repeats the call before it, argument for argument.
NoLast == [op |-> "none", kind |-> "none", name |-> <<>>, handle |-> 0, epoch |-> 0, raw |-> <<>>,
           enriched |-> <<>>, value |-> 0, result |-> "none", created |-> FALSE,
           option |-> "none", persist |-> FALSE, passed |-> <<>>, threw |-> FALSE,
           repeat |-> FALSE]

EmptyMap == <<>>

\* The fields of a new ReactoryTelemetry, apart from its context.
TelemetryFresh ==
  /\ env \in {[REACTORY_METRICS_PREFIX |-> <<>>, DO_STORE_STATISTICS |-> d] : d \in {"true", Undefined}}
  /\ persistenceEnabled = (env.DO_STORE_STATISTICS = "true")
  /\ counters = EmptyMap
  /\ histograms = EmptyMap
  /\ upDownCounters = EmptyMap
  /\ gauges = EmptyMap
  /\ instruments = <<>>
  /\ sums = EmptyMap
  /\ recorded = EmptyMap
  /\ handles = {}
  /\ sink = <<>>
  /\ pending = 0
  /\ unhandled = 0
  /\ disposed = 0
  /\ updates = 0
  /\ added = EmptyMap
  /\ lastSet = EmptyMap
  /\ last = NoLast

TelemetryInit ==
  /\ context \in Contexts
  /\ TelemetryFresh

----------------------------------------------------------------------------
(* StatisticHelpers *)

DefaultBuckets == <<0, 5, 10, 25, 50, 75, 100, 250, 500, 750, 1000, 2500, 5000, 7500, 10000>>

NoHistogramData == [count |-> 0, sum |-> 0, buckets |-> <<>>]

NoStat == [name |-> <<>>, type |-> "none", hasValue |-> FALSE, value |-> 0,
           hasHistogramData |-> FALSE, histogramData |-> NoHistogramData,
           attributes |-> <<>>, description |-> <<>>, unit |-> <<>>, timestamp |-> 0]

\* options: [hasBuckets, buckets, description, unit]; an empty description or
\* unit stands for an absent one.
NoOptions == [hasBuckets |-> FALSE, buckets |-> <<>>, description |-> <<>>, unit |-> <<>>]

StatCreateCounter(name, value, attributes, options, now) ==
  [NoStat EXCEPT !.name = name, !.type = "counter", !.hasValue = TRUE, !.value = value,
                 !.attributes = attributes, !.description = options.description,
                 !.unit = IF options.unit = <<>> THEN <<"1">> ELSE options.unit,
                 !.timestamp = now]

\* CountLE with a strict comparison.
CountLE_strict(observations, le) == Len(SelectSeq(observations, LAMBDA val : val < le))

\* The number of observations at or below le, as observations.filter(val => val <= le).length
CountLE(observations, le) == Len(SelectSeq(observations, LAMBDA val : val <= le))

StatCreateHistogram(name, observations, attributes, options, now) ==
  LET defaultBuckets == IF options.hasBuckets THEN options.buckets ELSE DefaultBuckets
  IN [NoStat EXCEPT
        !.name = name, !.type = "histogram", !.hasHistogramData = TRUE,
        !.histogramData =
           [count |-> Len(observations),
            sum |-> SumSeq(observations),
            buckets |-> [i \in 1..Len(defaultBuckets) |->
                           [le |-> defaultBuckets[i],
                            count |-> CountLE(observations, defaultBuckets[i])]]],
        !.attributes = attributes, !.description = options.description,
        !.unit = IF options.unit = <<>> THEN <<"ms">> ELSE options.unit,
        !.timestamp = now]

RECURSIVE JoinWith(_, _)
JoinWith(parts, sep) ==
  IF parts = <<>> THEN <<>>
  ELSE IF Len(parts) = 1 THEN parts[1]
  ELSE parts[1] \o sep \o JoinWith(Tail(parts), sep)

\* String.prototype.replace(pattern, replacement) with a one-character
\* pattern: the first occurrence is replaced.
RECURSIVE ReplaceFirst(_, _, _)
ReplaceFirst(text, pattern, replacement) ==
  IF text = <<>> THEN <<>>
  ELSE IF Head(text) = pattern THEN replacement \o Tail(text)
  ELSE <<Head(text)>> \o ReplaceFirst(Tail(text), pattern, replacement)

formatLabels(attrs) ==
  IF Len(attrs) = 0 THEN <<>>
  ELSE LET kept == SelectSeq(attrs, LAMBDA p : p[2] # UndefinedValue)
           labelPairs == [i \in 1..Len(kept) |-> <<kept[i][1], "=", "\"">> \o kept[i][2] \o <<"\"">>]
       IN <<"{">> \o JoinWith(labelPairs, <<",">>) \o <<"}">>

HeaderLine(tag, name, text) ==
  [tag |-> tag, name |-> name, labels |-> <<>>, value |-> 0, text |-> text, timestamp |-> 0]

SampleLine(name, labels, value, timestamp) ==
  [tag |-> "sample", name |-> name, labels |-> labels, value |-> value, text |-> <<>>,
   timestamp |-> timestamp]

toPrometheusFormat(s) ==
  LET labels == formatLabels(s.attributes)
      help == IF s.description # <<>> THEN <<HeaderLine("HELP", s.name, s.description)>>
              ELSE <<>>
      type == <<HeaderLine("TYPE", s.name, <<s.type>>)>>
      buckets == s.histogramData.buckets
      body ==
        IF s.type = "histogram" /\ s.hasHistogramData
        THEN [i \in 1..Len(buckets) |->
                SampleLine(s.name \o <<"_bucket">>,
                           ReplaceFirst(labels, "}",
                                        <<",", "le", "=", "\"", ToString(buckets[i].le), "\"">>),
                           buckets[i].count, s.timestamp)]
             \o <<SampleLine(s.name \o <<"_bucket">>,
                             ReplaceFirst(labels, "}", <<",", "le", "=", "\"", "+Inf", "\"", "}">>),
                             s.histogramData.count, s.timestamp),
                  SampleLine(s.name \o <<"_sum">>, labels, s.histogramData.sum, s.timestamp),
                  SampleLine(s.name \o <<"_count">>, labels, s.histogramData.count, s.timestamp)>>
        ELSE IF s.hasValue THEN <<SampleLine(s.name, labels, s.value, s.timestamp)>>
        ELSE <<>>
  IN help \o type \o body

----------------------------------------------------------------------------
(* The createHistogram call under study *)

\* Values are in units of 0.5: 1 is 0.5, 2 is 1, 10 is 5, 45 is 22.5.
ObservationValues == {1, 6, 10, 14, 24}
BoundaryValues == {2, 10, 20}
Timestamps == {1700}

RECURSIVE SeqsUpTo(_, _)
\* Array.prototype.sort((a, b) => a - b) on a copy of the array.
RECURSIVE InsertAscending(_, _)
InsertAscending(x, s) ==
  IF s = <<>> THEN <<x>>
  ELSE IF x < Head(s) THEN <<x>> \o s
  ELSE <<Head(s)>> \o InsertAscending(x, Tail(s))

RECURSIVE SortAscending(_)
SortAscending(s) ==
  IF s = <<>> THEN <<>> ELSE InsertAscending(s[Len(s)], SortAscending(SubSeq(s, 1, Len(s) - 1)))

\* Math.ceil(a / b) for a divisor b > 0.
Ceil(a, b) == (a + b - 1) \div b

\* Quantiles are written in hundredths: 50 is the quantile 0.5.
DefaultQuantiles == <<50, 90, 95, 99>>

\* The index with Math.floor in the place of Math.ceil(...) - 1.
QuantileIndex_floor(count, q) == (count * q) \div 100

\* Math.ceil(count * q) - 1, an index from 0.
QuantileIndex(count, q) == Ceil(count * q, 100) - 1

\* sorted[index] || 0
QuantileValue(sorted, index) ==
  IF index + 1 \in DOMAIN sorted /\ sorted[index + 1] # 0 THEN sorted[index + 1] ELSE 0

\* createSummary
StatCreateSummary(name, observations, attributes, options, now) ==
  LET defaultQuantiles == IF options.hasQuantiles THEN options.quantiles ELSE DefaultQuantiles
      sorted == SortAscending(observations)
      count == Len(sorted)
  IN [name |-> name, type |-> "summary",
      summaryData |->
        [count |-> count,
         sum |-> SumSeq(sorted),
         quantiles |-> [j \in 1..Len(defaultQuantiles) |->
                          [quantile |-> defaultQuantiles[j],
                           value |-> QuantileValue(sorted,
                                                   QuantileIndex(count, defaultQuantiles[j]))]]],
      attributes |-> attributes, description |-> options.description,
      unit |-> IF options.unit = <<>> THEN <<"ms">> ELSE options.unit,
      timestamp |-> now]

SeqsUpTo(S, n) ==
  IF n = 0 THEN {<<>>}
  ELSE SeqsUpTo(S, n - 1) \cup {Append(q, x) : q \in {r \in SeqsUpTo(S, n - 1) : Len(r) = n - 1}, x \in S}

HistogramAttributes == { <<>>, << <<"method", GET>> >> }

HistogramArgs ==
  [observations : SeqsUpTo(ObservationValues, MaxObservations),
   hasBuckets : {TRUE},
   buckets : SeqsUpTo(BoundaryValues, MaxBuckets),
   attributes : HistogramAttributes]
  \cup
  [observations : SeqsUpTo(ObservationValues, MaxObservations),
   hasBuckets : {FALSE},
   buckets : {<<>>},
   attributes : HistogramAttributes]

NoArgs == [observations |-> <<>>, hasBuckets |-> FALSE, buckets |-> <<>>, attributes |-> <<>>]

HelpersIdle ==
  /\ args = NoArgs
  /\ stat = NoStat
  /\ lines = <<>>

HistogramName == <<"http_request_duration_ms">>

\* A call of createSummary on the array and the quantiles of args; the array
\* object of the caller is the one the call was given.
CallCreateSummary ==
  /\ stat = NoStat
  /\ \E now \in Timestamps :
       stat' = StatCreateSummary(<<"graphql_operation_duration_ms">>, args.observations, <<>>,
                                 [hasQuantiles |-> args.hasQuantiles,
                                  quantiles |-> args.quantiles,
                                  description |-> <<>>, unit |-> <<>>],
                                 now)
  /\ args' = args
  /\ last' = [NoLast EXCEPT !.op = "createSummary", !.result = "statistic"]
  /\ UNCHANGED <<httpVars, telemetryVars, lines, collectorVars>>

\* The caller goes on to another call.
SummaryRead ==
  /\ stat # NoStat
  /\ stat' = NoStat
  /\ last' = [NoLast EXCEPT !.op = "read"]
  /\ UNCHANGED <<httpVars, telemetryVars, args, lines, collectorVars>>

CallCreateHistogram ==
  /\ stat = NoStat
  /\ \E now \in Timestamps :
       stat' = StatCreateHistogram(HistogramName, args.observations, args.attributes,
                                   [NoOptions EXCEPT !.hasBuckets = args.hasBuckets,
                                                     !.buckets = args.buckets],
                                   now)
  /\ last' = [NoLast EXCEPT !.op = "createHistogram", !.result = "statistic"]
  /\ UNCHANGED <<httpVars, telemetryVars, args, lines, collectorVars>>

CallToPrometheusFormat ==
  /\ stat # NoStat
  /\ lines = <<>>
  /\ lines' = toPrometheusFormat(stat)
  /\ last' = [NoLast EXCEPT !.op = "toPrometheusFormat", !.result = "text"]
  /\ UNCHANGED <<httpVars, telemetryVars, args, stat, collectorVars>>

----------------------------------------------------------------------------
(* GraphQLMetricsCollector *)

ServiceName == <<"reactory-server">>

CollectorBuckets == <<0, 5, 10, 25, 50, 75, 100, 250, 500, 750, 1000, 2500, 5000>>

\* String.prototype.split(separator) with a one-character separator
RECURSIVE Split(_, _)
Split(text, separator) ==
  IF \A i \in 1..Len(text) : text[i] # separator THEN <<text>>
  ELSE LET first == CHOOSE i \in 1..Len(text) :
                      text[i] = separator /\ \A j \in 1..(i - 1) : text[j] # separator
       IN <<SubSeq(text, 1, first - 1)>> \o Split(SubSeq(text, first + 1, Len(text)), separator)

\* Array destructuring: a missing element is undefined.
Element(parts, i) == IF i <= Len(parts) THEN parts[i] ELSE UndefinedValue

\* Map.get(key) || 0
GetOrZero(map, key) == IF HasKey(map, key) THEN GetKey(map, key) ELSE 0

\* Array.prototype.push on the durations of a key, with only the new duration kept.
PushDuration_replace(durations, duration) == <<duration>>

\* Array.prototype.push on the durations of a key
PushDuration(durations, duration) == Append(durations, duration)

NoSnapshot == [stats |-> <<>>, keys |-> <<>>]

CollectorInit ==
  /\ operationDurations = EmptyMap
  /\ operationCounts = EmptyMap
  /\ errorCounts = EmptyMap
  /\ records = 0
  /\ calls = EmptyMap
  /\ snapshot = NoSnapshot
  /\ prevSnapshot = NoSnapshot
  /\ resetPending = FALSE
  /\ resetBetween = FALSE

\* errorType <<>> stands for an absent (or empty) error type.
recordOperation(operationName, duration, operationType, status, errorType) ==
  LET key == operationName \o <<":", operationType>>
      durations == IF HasKey(operationDurations, key) THEN operationDurations
                   ELSE ObjAssign(operationDurations, key, <<>>)
      countKey == key \o <<":", status>>
      errorKey == key \o <<":">> \o errorType
  IN /\ records < MaxRecords
     /\ operationDurations' =
          ObjAssign(durations, key, PushDuration(GetKey(durations, key), duration))
     /\ operationCounts' = ObjAssign(operationCounts, countKey, GetOrZero(operationCounts, countKey) + 1)
     /\ errorCounts' = IF status = "error" /\ errorType # <<>>
                       THEN ObjAssign(errorCounts, errorKey, GetOrZero(errorCounts, errorKey) + 1)
                       ELSE errorCounts
     /\ records' = records + 1
     /\ calls' = ObjAssign(calls, <<operationName, operationType>>,
                           GetOrZero(calls, <<operationName, operationType>>) + 1)
     /\ last' = [NoLast EXCEPT !.op = "recordOperation", !.name = operationName,
                               !.value = duration, !.result = "void"]
     /\ UNCHANGED <<httpVars, telemetryVars, helperVars, snapshot, prevSnapshot, resetPending,
                    resetBetween>>

getOperationDurationHistograms(now) ==
  [i \in 1..Len(operationDurations) |->
     LET parts == Split(operationDurations[i][1], ":")
     IN StatCreateHistogram(
          <<"graphql_operation_duration_ms">>,
          operationDurations[i][2],
          << <<"service_name", ServiceName>>,
             <<"graphql_operation_name", Element(parts, 1)>>,
             <<"graphql_operation_type", Element(parts, 2)>> >>,
          [hasBuckets |-> TRUE, buckets |-> CollectorBuckets,
           description |-> <<"GraphQL operation duration in milliseconds">>,
           unit |-> <<"ms">>],
          now)]

getOperationCounters(now) ==
  [i \in 1..Len(operationCounts) |->
     LET parts == Split(operationCounts[i][1], ":")
     IN StatCreateCounter(
          <<"graphql_operations_total">>,
          operationCounts[i][2],
          << <<"service_name", ServiceName>>,
             <<"graphql_operation_name", Element(parts, 1)>>,
             <<"graphql_operation_type", Element(parts, 2)>>,
             <<"status", Element(parts, 3)>> >>,
          [NoOptions EXCEPT !.description = <<"Total number of GraphQL operations">>,
                            !.unit = <<"1">>],
          now)]

getErrorCounters(now) ==
  [i \in 1..Len(errorCounts) |->
     LET parts == Split(errorCounts[i][1], ":")
     IN StatCreateCounter(
          <<"graphql_errors_total">>,
          errorCounts[i][2],
          << <<"service_name", ServiceName>>,
             <<"graphql_operation_name", Element(parts, 1)>>,
             <<"graphql_operation_type", Element(parts, 2)>>,
             <<"error_type", Element(parts, 3)>> >>,
          [NoOptions EXCEPT !.description = <<"Total number of GraphQL errors">>,
                            !.unit = <<"1">>],
          now)]

getAllMetrics(now) ==
  getOperationDurationHistograms(now) \o getOperationCounters(now) \o getErrorCounters(now)

\* The keys of the Map entries getAllMetrics makes its statistics from, in
\* the order of the statistics.
MapKeys(map) == [i \in 1..Len(map) |-> map[i][1]]

AllKeys == MapKeys(operationDurations) \o MapKeys(operationCounts) \o MapKeys(errorCounts)

\* getAllMetrics, called by getMetricsSnapshot
GetAllMetrics ==
  /\ \E now \in Timestamps : snapshot' = [stats |-> getAllMetrics(now), keys |-> AllKeys]
  /\ prevSnapshot' = snapshot
  /\ resetBetween' = resetPending
  /\ resetPending' = FALSE
  /\ last' = [NoLast EXCEPT !.op = "getAllMetrics", !.result = "statistics"]
  /\ UNCHANGED <<httpVars, telemetryVars, helperVars, operationDurations, operationCounts, errorCounts,
                 records, calls>>

\* reset that leaves the error counts.
reset_keepsErrors ==
  /\ operationDurations' = EmptyMap
  /\ operationCounts' = EmptyMap
  /\ calls' = EmptyMap
  /\ resetPending' = TRUE
  /\ last' = [NoLast EXCEPT !.op = "reset", !.result = "void"]
  /\ UNCHANGED <<httpVars, telemetryVars, helperVars, errorCounts, records, snapshot,
                 prevSnapshot, resetBetween>>

reset ==
  /\ operationDurations' = EmptyMap
  /\ operationCounts' = EmptyMap
  /\ errorCounts' = EmptyMap
  /\ calls' = EmptyMap
  /\ resetPending' = TRUE
  /\ last' = [NoLast EXCEPT !.op = "reset", !.result = "void"]
  /\ UNCHANGED <<httpVars, telemetryVars, helperVars, records, snapshot, prevSnapshot, resetBetween>>

\* The lines of toPrometheusFormat for each statistic in turn.
RECURSIVE RenderEach(_)
RenderEach(stats) ==
  IF stats = <<>> THEN <<>>
  ELSE toPrometheusFormat(Head(stats)) \o RenderEach(Tail(stats))

\* A render of all collected metrics: every statistic of the latest
\* getAllMetrics goes through toPrometheusFormat.
RenderAllMetrics ==
  /\ snapshot # NoSnapshot
  /\ lines' = RenderEach(snapshot.stats)
  /\ last' = [NoLast EXCEPT !.op = "toPrometheusFormat", !.result = "text"]
  /\ UNCHANGED <<httpVars, telemetryVars, args, stat, collectorVars>>

\* Collaborators that do not fail.
DepsInit == deps = NoFaults

\* No request has been served and no scrape has run.
NoResponse == [state |-> "idle", status |-> 200, contentType |-> "none", body |-> "none",
               sends |-> 0, threw |-> FALSE]

\* The observable gauges of the improved middleware.
LagGauge == "nodejs_eventloop_lag_seconds"

LiveGauges == {"nodejs_active_handles_total", "nodejs_active_requests_total"}

ProcessGauges ==
  {"process_cpu_usage_percent", "process_memory_heap_used_bytes",
   "process_memory_heap_total_bytes", "process_memory_rss_bytes",
   "process_memory_external_bytes", LagGauge} \cup LiveGauges

\* A callback is the reading it captured; Live is a callback that takes its
\* reading when it runs.
Live == -1

HttpIdle ==
  /\ requests = <<>>
  /\ response = NoResponse
  /\ scrape = [done |-> FALSE, failing |-> {}, reported |-> <<>>]
  /\ callbacks = [g \in ProcessGauges |-> <<>>]
  /\ timers = <<>>

Init == TelemetryInit /\ DepsInit /\ HelpersIdle /\ CollectorInit /\ HttpIdle

----------------------------------------------------------------------------
(* ReactoryTelemetry operations *)

\* The set of attribute pairs of an object, whatever their order.
LabelSetOf(o) == {o[i] : i \in 1..Len(o)}

\* epoch: the number of dispose() calls before the handle was returned;
\* option: options.persist as the caller gave it
Handle(kind, fullName, inst, persistOption) ==
  [kind |-> kind, name |-> fullName, inst |-> inst, persist |-> shouldPersist(persistOption),
   option |-> persistOption, epoch |-> disposed]

\* The cache lookup shared by the four create methods: the instrument is
\* created on a miss and the cached one is used afterwards.
\* MustCreate without the cache lookup.
MustCreate_always(map, name) == TRUE

MustCreate(map, name) == prefixMetricName(name) \notin DOMAIN map

CacheAfter(map, name) ==
  IF MustCreate(map, name)
  THEN map @@ (prefixMetricName(name) :> Len(instruments) + 1)
  ELSE map

InstrumentsAfter(map, kind, name) ==
  IF MustCreate(map, name)
  THEN Append(instruments, NewInstrument(kind, prefixMetricName(name), disposed))
  ELSE instruments

CreateResult(map, kind, name, persistOption) ==
  /\ MustCreate(map, name) => Len(instruments) < MaxInstruments
  /\ instruments' = InstrumentsAfter(map, kind, name)
  /\ handles' = handles \cup
        {Handle(kind, prefixMetricName(name), CacheAfter(map, name)[prefixMetricName(name)],
                persistOption)}
  /\ last' = [NoLast EXCEPT !.op = "create", !.kind = kind, !.name = prefixMetricName(name),
                            !.handle = CacheAfter(map, name)[prefixMetricName(name)],
                            !.epoch = disposed, !.option = persistOption,
                            !.persist = shouldPersist(persistOption),
                            !.result = "handle", !.created = MustCreate(map, name)]
  /\ UNCHANGED <<httpVars, context, env, deps, persistenceEnabled, sums, recorded, sink, pending,
                 unhandled, disposed, updates, added, lastSet, helperVars, collectorVars>>

createCounter(name, persistOption) ==
  /\ CreateResult(counters, "counter", name, persistOption)
  /\ counters' = CacheAfter(counters, name)
  /\ UNCHANGED <<histograms, upDownCounters, gauges>>

createUpDownCounter(name, persistOption) ==
  /\ CreateResult(upDownCounters, "updowncounter", name, persistOption)
  /\ upDownCounters' = CacheAfter(upDownCounters, name)
  /\ UNCHANGED <<counters, histograms, gauges>>

createHistogram(name, persistOption) ==
  /\ CreateResult(histograms, "histogram", name, persistOption)
  /\ histograms' = CacheAfter(histograms, name)
  /\ UNCHANGED <<counters, upDownCounters, gauges>>

createGauge(name, persistOption) ==
  /\ CreateResult(gauges, "gauge", name, persistOption)
  /\ gauges' = CacheAfter(gauges, name)
  /\ UNCHANGED <<counters, histograms, upDownCounters>>

\* persistMetric: the sample handed to publishStatistics.
Sample(h, value, enriched) ==
  [name |-> h.name, type |-> h.kind, value |-> value, attributes |-> enriched]

\* persistMetric reaches its call of publishStatistics: getService returned a service.
PublishCalled(service) == service \notin {"missing", "getServiceThrows"}

\* The try / catch of persistMetric: what becomes of an outcome of its body.
\* Catch that lets the error through.
Catch_rethrow(outcome) == outcome

Catch(outcome) == IF outcome = "error" THEN "logged" ELSE outcome

\* persistMetric up to its await: it runs inside the caller's add / record / set.
persistMetricSync(service) ==
  CASE service = "getServiceThrows" -> Catch("error")
    [] service = "missing" -> "returned"
    [] service = "publishThrows" -> Catch("error")
    [] OTHER -> "awaiting"

\* persistMetric after its await, once the promise of publishStatistics settled.
persistMetricResumed(service) ==
  IF service = "publishRejects" THEN Catch("error") ELSE "returned"

\* The promise of persistMetric is rejected when an error leaves its body; the
\* handle operations attach no handler to it.
Rejected(outcome) == IF outcome = "error" THEN 1 ELSE 0

\* An error is raised inside the try block of a handle operation, by
\* enrichAttributes or by the instrument of the meter (a gauge calls none).
Thrown(h) == enrichThrows \/ (h.kind # "gauge" /\ deps.meterThrows)

\* Persists in which persistMetric is called before the instrument is updated.
Persists_beforeUpdate(h) == h.persist /\ ~enrichThrows

\* The handle operation gets to its call of persistMetric.
Persists(h) == h.persist /\ ~Thrown(h)

SinkAfter(h, value, enriched) ==
  IF Persists(h) /\ PublishCalled(deps.service)
  THEN Append(sink, Sample(h, value, enriched)) ELSE sink

\* persistMetric is not awaited: the operation returns with the call suspended.
PendingAfter(h) ==
  IF Persists(h) /\ persistMetricSync(deps.service) = "awaiting" THEN pending + 1 ELSE pending

UnhandledAfter(h) ==
  IF Persists(h) THEN unhandled + Rejected(persistMetricSync(deps.service)) ELSE unhandled

AddedAfter(h, value, enriched) ==
  LET key == <<h.name, LabelSetOf(enriched)>>
  IN IF h.kind # "counter" \/ value < 0 \/ enrichThrows THEN added
     ELSE IF key \in DOMAIN added THEN [added EXCEPT ![key] = @ + value]
     ELSE added @@ (key :> value)

\* What the catch block of a handle operation returns.
CatchResult(op) == IF op = "get" THEN Undefined ELSE "void"

\* The try / catch of the handle operations: what the caller gets back.
\* Returned without the catch block.
Returned_uncaught(op, threw, normal) == IF threw THEN "throws" ELSE normal

Returned(op, threw, normal) == IF threw THEN CatchResult(op) ELSE normal

UpdateLast(op, h, value, attributes) ==
  [NoLast EXCEPT !.op = op, !.kind = h.kind, !.name = h.name, !.handle = h.inst,
                 !.epoch = h.epoch, !.option = h.option, !.persist = h.persist,
                 !.raw = attributes,
                 !.passed = IF enrichThrows THEN attributes
                            ELSE enrichAttributesOnHeap(attributes).attributes,
                 !.enriched = IF enrichThrows THEN <<>> ELSE enrichAttributes(attributes),
                 !.value = value,
                 !.threw = Thrown(h),
                 !.result = Returned(op, Thrown(h), "void"),
                 !.repeat = /\ last.op = op /\ last.handle = h.inst /\ last.value = value
                            /\ last.raw = attributes /\ ~last.threw /\ ~Thrown(h)]

\* HandleAdd with the instrument's add moved into the persistence branch.
HandleAdd_inPersistBranch(h, value, attributes) ==
  /\ h.kind \in {"counter", "updowncounter"}
  /\ updates < MaxUpdates
  /\ sums' = IF h.persist /\ ~Thrown(h)
             THEN MeterAdd(sums, h.kind, h.name, value, enrichAttributes(attributes))
             ELSE sums
  /\ sink' = SinkAfter(h, value, enrichAttributes(attributes))
  /\ pending' = PendingAfter(h)
  /\ unhandled' = UnhandledAfter(h)
  /\ added' = AddedAfter(h, value, enrichAttributes(attributes))
  /\ updates' = updates + 1
  /\ last' = UpdateLast("add", h, value, attributes)
  /\ UNCHANGED <<httpVars, context, env, deps, persistenceEnabled, counters, histograms, upDownCounters,
                 gauges, instruments, recorded, handles, disposed, lastSet,
                 helperVars, collectorVars>>

\* ICounter.add and IUpDownCounter.add
HandleAdd(h, value, attributes) ==
  /\ h.kind \in {"counter", "updowncounter"}
  /\ updates < MaxUpdates
  /\ sums' = IF Thrown(h) THEN sums
             ELSE MeterAdd(sums, h.kind, h.name, value, enrichAttributes(attributes))
  /\ sink' = SinkAfter(h, value, enrichAttributes(attributes))
  /\ pending' = PendingAfter(h)
  /\ unhandled' = UnhandledAfter(h)
  /\ added' = AddedAfter(h, value, enrichAttributes(attributes))
  /\ updates' = updates + 1
  /\ last' = UpdateLast("add", h, value, attributes)
  /\ UNCHANGED <<httpVars, context, env, deps, persistenceEnabled, counters, histograms, upDownCounters,
                 gauges, instruments, recorded, handles, disposed, lastSet,
                 helperVars, collectorVars>>

CounterAdd(h, value, attributes) == h.kind = "counter" /\ HandleAdd(h, value, attributes)

UpDownCounterAdd(h, value, attributes) ==
  h.kind = "updowncounter" /\ HandleAdd(h, value, attributes)

\* HistogramRecord that awaits persistMetric before it returns: it does not
\* return while publishStatistics has not settled.
HistogramRecord_awaitsSink(h, value, attributes) ==
  /\ h.kind = "histogram"
  /\ updates < MaxUpdates
  /\ ~(Persists(h) /\ deps.service = "slow")
  /\ recorded' \in IF Thrown(h) THEN {recorded}
                   ELSE MeterRecordOutcomes(recorded, h.name, value, enrichAttributes(attributes))
  /\ sink' = SinkAfter(h, value, enrichAttributes(attributes))
  /\ pending' = pending
  /\ unhandled' = UnhandledAfter(h) + (IF Persists(h) /\ PublishCalled(deps.service)
                                       THEN Rejected(persistMetricResumed(deps.service))
                                       ELSE 0)
  /\ updates' = updates + 1
  /\ last' = UpdateLast("record", h, value, attributes)
  /\ UNCHANGED <<httpVars, context, env, deps, persistenceEnabled, counters, histograms, upDownCounters,
                 gauges, instruments, sums, handles, disposed, added, lastSet,
                 helperVars, collectorVars>>

\* IHistogram.record
HistogramRecord(h, value, attributes) ==
  /\ h.kind = "histogram"
  /\ updates < MaxUpdates
  /\ recorded' \in IF Thrown(h) THEN {recorded}
                   ELSE MeterRecordOutcomes(recorded, h.name, value, enrichAttributes(attributes))
  /\ sink' = SinkAfter(h, value, enrichAttributes(attributes))
  /\ pending' = PendingAfter(h)
  /\ unhandled' = UnhandledAfter(h)
  /\ updates' = updates + 1
  /\ last' = UpdateLast("record", h, value, attributes)
  /\ UNCHANGED <<httpVars, context, env, deps, persistenceEnabled, counters, histograms, upDownCounters,
                 gauges, instruments, sums, handles, disposed, added, lastSet,
                 helperVars, collectorVars>>

\* startTimer: createHistogram under the metric name; the closure it returns
\* keeps the histogram handle.
TimerHandle(metricName) ==
  Handle("histogram", prefixMetricName(metricName),
         CacheAfter(histograms, metricName)[prefixMetricName(metricName)], "default")

startTimer(metricName) ==
  /\ MustCreate(histograms, metricName) => Len(instruments) < MaxInstruments
  /\ histograms' = CacheAfter(histograms, metricName)
  /\ instruments' = InstrumentsAfter(histograms, "histogram", metricName)

\* The closure returned by startTimer: histogram.record(duration, attributes)
endTimer(h, duration, attributes) ==
  /\ recorded' \in IF Thrown(h) THEN {recorded}
                   ELSE MeterRecordOutcomes(recorded, h.name, duration, enrichAttributes(attributes))
  /\ sink' = SinkAfter(h, duration, enrichAttributes(attributes))
  /\ pending' = PendingAfter(h)
  /\ unhandled' = UnhandledAfter(h)
  /\ updates' = updates + 1

\* The outcome of the wrapped operation, and no outcome yet.
NoOutcome == [kind |-> "none", payload |-> "none"]

OperationOutcomes ==
  {[kind |-> "result", payload |-> "rows"], [kind |-> "error", payload |-> "timeout"]}

\* measure and measureAsync without the endTimer() of the catch block.
EndTimerCalls_tryOnly(outcome) == IF outcome.kind = "error" THEN 0 ELSE 1

\* The calls of endTimer() one invocation makes: one in the try block after the
\* operation, one in the catch block.
EndTimerCalls(outcome) == IF outcome.kind = "error" THEN 1 ELSE 1

\* What measure and measureAsync hand to the caller: return result / throw error.
PassedOn(outcome) == outcome

TimerEnds(h, outcome, duration, attributes) ==
  IF EndTimerCalls(outcome) = 1
  THEN endTimer(h, duration, attributes)
  ELSE UNCHANGED <<recorded, sink, pending, unhandled, updates>>

\* measure: the operation runs to its end inside the call.
measure(metricName, outcome, duration, attributes) ==
  /\ Len(timers) < MaxTimers
  /\ startTimer(metricName)
  /\ TimerEnds(TimerHandle(metricName), outcome, duration, attributes)
  /\ timers' = Append(timers, [async |-> FALSE, handle |-> TimerHandle(metricName),
                               attributes |-> attributes, phase |-> "done",
                               outcome |-> outcome, result |-> PassedOn(outcome)])
  /\ last' = [NoLast EXCEPT !.op = "measure", !.name = prefixMetricName(metricName),
                            !.value = duration, !.raw = attributes,
                            !.result = outcome.kind]
  /\ UNCHANGED <<context, env, deps, persistenceEnabled, counters, upDownCounters, gauges, sums,
                 handles, disposed, added, lastSet, helperVars, collectorVars, requests,
                 response, scrape, callbacks>>

\* measureAsync up to its await: the timer is started and the operation called.
measureAsync(metricName, attributes) ==
  /\ Len(timers) < MaxTimers
  /\ startTimer(metricName)
  /\ timers' = Append(timers, [async |-> TRUE, handle |-> TimerHandle(metricName),
                               attributes |-> attributes, phase |-> "awaiting",
                               outcome |-> NoOutcome, result |-> NoOutcome])
  /\ last' = [NoLast EXCEPT !.op = "measureAsync", !.name = prefixMetricName(metricName),
                            !.raw = attributes]
  /\ UNCHANGED <<context, env, deps, persistenceEnabled, counters, upDownCounters, gauges, sums,
                 recorded, sink, pending, unhandled, updates,
                 handles, disposed, added, lastSet, helperVars, collectorVars, requests,
                 response, scrape, callbacks>>

\* The promise of the wrapped operation resolves or rejects.
operationSettles(i, outcome) ==
  /\ timers[i].phase = "awaiting"
  /\ timers' = [timers EXCEPT ![i].phase = "settled", ![i].outcome = outcome]
  /\ last' = [NoLast EXCEPT !.op = "settle", !.handle = i, !.result = outcome.kind]
  /\ UNCHANGED <<telemetryVars, helperVars, collectorVars, requests, response, scrape, callbacks>>

\* measureAsync after its await: endTimer(), then return result / throw error.
measureAsyncResumes(i, duration) ==
  /\ timers[i].phase = "settled"
  /\ TimerEnds(timers[i].handle, timers[i].outcome, duration, timers[i].attributes)
  /\ timers' = [timers EXCEPT ![i].phase = "done", ![i].result = PassedOn(timers[i].outcome)]
  /\ last' = [NoLast EXCEPT !.op = "resume", !.handle = i, !.value = duration,
                            !.result = timers[i].outcome.kind]
  /\ UNCHANGED <<context, env, deps, persistenceEnabled, counters, histograms, upDownCounters,
                 gauges, instruments, sums, handles, disposed, added, lastSet, helperVars,
                 collectorVars, requests, response, scrape, callbacks>>

\* The value of the last set per gauge instrument and label set.
LastSetAfter(h, value, enriched) ==
  LET key == <<h.inst, LabelSetOf(enriched)>>
  IN [k \in DOMAIN lastSet \cup {key} |-> IF k = key THEN value ELSE lastSet[k]]

\* IGauge.set
GaugeSet(h, value, attributes) ==
  /\ h.kind = "gauge"
  /\ updates < MaxUpdates
  /\ instruments' = IF Thrown(h) THEN instruments
                    ELSE [instruments EXCEPT ![h.inst].values =
                            ObjAssign(@, JSONstringify(enrichAttributes(attributes)), value)]
  /\ lastSet' = IF Thrown(h) THEN lastSet
                ELSE LastSetAfter(h, value, enrichAttributes(attributes))
  /\ sink' = SinkAfter(h, value, enrichAttributes(attributes))
  /\ pending' = PendingAfter(h)
  /\ unhandled' = UnhandledAfter(h)
  /\ updates' = updates + 1
  /\ last' = UpdateLast("set", h, value, attributes)
  /\ UNCHANGED <<httpVars, context, env, deps, persistenceEnabled, counters, histograms, upDownCounters,
                 gauges, sums, recorded, handles, disposed, added,
                 helperVars, collectorVars>>

\* values.has / values.get(attributesKey) on the Map behind handle h of an
\* instrument table
ValuesHas(table, h, attributes) ==
  HasKey(table[h.inst].values, JSONstringify(enrichAttributes(attributes)))

ValuesGet(table, h, attributes) ==
  GetKey(table[h.inst].values, JSONstringify(enrichAttributes(attributes)))

\* IGauge.get
GaugeGet(h, attributes) ==
  /\ h.kind = "gauge"
  /\ last' = [UpdateLast("get", h, 0, attributes) EXCEPT
                !.result = Returned("get", Thrown(h),
                                    IF ValuesHas(instruments, h, attributes)
                                    THEN "value" ELSE Undefined),
                !.value = IF ~Thrown(h) /\ ValuesHas(instruments, h, attributes)
                          THEN ValuesGet(instruments, h, attributes) ELSE 0]
  /\ UNCHANGED <<httpVars, telemetryVars, helperVars, collectorVars>>

\* A scrape: the meter runs the callback of every observable gauge, each on its
\* own; failing holds the keys of the entries whose observation throws.
Scrape(failing) ==
  /\ LET G == {i \in 1..Len(instruments) : instruments[i].kind = "gauge"}
         all == UNION {CallbackOutcomes(instruments[i].values, failing) : i \in G}
     IN \E reported \in [G -> all] :
          /\ \A i \in G : reported[i] \in CallbackOutcomes(instruments[i].values, failing)
          /\ scrape' = [done |-> TRUE, failing |-> failing, reported |-> reported]
  /\ last' = [NoLast EXCEPT !.op = "scrape", !.result = "collected"]
  /\ UNCHANGED <<telemetryVars, helperVars, collectorVars, requests, response, callbacks, timers>>

\* The ReactoryPrometheus middleware: httpRequestCounter.add(1, {method, path})
\* on the meter, then next().
ReactoryPrometheus(method, path) ==
  /\ Len(requests) < MaxRequests
  /\ requests' = Append(requests, [method |-> method, path |-> path, improved |-> FALSE,
                                   ends |-> 0])
  /\ sums' = MeterAdd(sums, "counter", <<"http_requests_total">>, 1,
                      << <<"method", method>>, <<"path", path>> >>)
  /\ last' = [NoLast EXCEPT !.op = "request", !.kind = "counter",
                            !.name = <<"http_requests_total">>, !.value = 1,
                            !.enriched = << <<"method", method>>, <<"path", path>> >>]
  /\ UNCHANGED <<context, env, deps, persistenceEnabled, counters, histograms,
                 upDownCounters, gauges, instruments, recorded, handles, sink, pending,
                 unhandled, disposed, updates, added, lastSet, helperVars, collectorVars,
                 response, scrape, callbacks, timers>>

\* getAttributes(res.statusCode) of the improved middleware
getAttributes(r, statusCode) ==
  << <<"method", r.method>>, <<"route", r.path>>, <<"status_code", <<ToString(statusCode)>> >>,
     <<"status_class", <<ToString(statusCode \div 100), "xx">> >> >>

\* The improved middleware on an incoming request: activeRequests.add(1), the
\* request size when there is one, res.end replaced, then next().
ImprovedRequest(method, path, requestSize) ==
  /\ Len(requests) < MaxRequests
  /\ requests' = Append(requests, [method |-> method, path |-> path, improved |-> TRUE,
                                   ends |-> 0])
  /\ sums' = MeterAdd(sums, "updowncounter", <<"http_requests_active">>, 1, <<>>)
  /\ recorded' = IF requestSize > 0
                 THEN MeterRecord(recorded, <<"http_request_size_bytes">>, requestSize,
                                  << <<"method", method>>, <<"route", path>> >>)
                 ELSE recorded
  /\ last' = [NoLast EXCEPT !.op = "request", !.kind = "updowncounter",
                            !.name = <<"http_requests_active">>, !.value = 1]
  /\ UNCHANGED <<context, env, deps, persistenceEnabled, counters, histograms,
                 upDownCounters, gauges, instruments, handles, sink, pending,
                 unhandled, disposed, updates, added, lastSet, helperVars, collectorVars,
                 response, scrape, callbacks, timers>>

\* The res.end the improved middleware installed on the response of request
\* i, invoked by the application: the request metrics, activeRequests.add(-1),
\* then the original res.end.
ImprovedEnd(i, statusCode, duration, responseSize) ==
  /\ requests[i].improved
  /\ requests[i].ends < MaxEnds
  /\ requests' = [requests EXCEPT ![i].ends = @ + 1]
  /\ sums' = MeterAdd(
               MeterAdd(
                 MeterAdd(sums, "counter", <<"http_requests_total">>, 1,
                          getAttributes(requests[i], statusCode)),
                 "counter", <<"http_requests_by_status_total">>, 1,
                 << <<"status_code", <<ToString(statusCode)>> >>,
                    <<"status_class", <<ToString(statusCode \div 100), "xx">> >> >>),
               "updowncounter", <<"http_requests_active">>, -1, <<>>)
  /\ recorded' = LET timed == MeterRecord(recorded, <<"http_request_duration_seconds">>,
                                          duration, getAttributes(requests[i], statusCode))
                 IN IF responseSize > 0
                    THEN MeterRecord(timed, <<"http_response_size_bytes">>, responseSize,
                                     getAttributes(requests[i], statusCode))
                    ELSE timed
  /\ last' = [NoLast EXCEPT !.op = "res.end", !.kind = "updowncounter",
                            !.name = <<"http_requests_active">>, !.value = -1, !.handle = i]
  /\ UNCHANGED <<context, env, deps, persistenceEnabled, counters, histograms,
                 upDownCounters, gauges, instruments, handles, sink, pending,
                 unhandled, disposed, updates, added, lastSet, helperVars, collectorVars,
                 response, scrape, callbacks, timers>>

\* addCallback on each gauge collectProcessMetrics reports, with the reading
\* of this collection captured by the new callback.
Collected(registered, reading) ==
  [g \in ProcessGauges |->
     IF g = LagGauge THEN registered[g]
     ELSE IF g \in LiveGauges THEN Append(registered[g], Live)
     ELSE Append(registered[g], reading)]

\* The timer of 100 ms: the lag of this tick goes into a new callback on the
\* event-loop lag gauge.
LagTick(lag) ==
  /\ Len(callbacks[LagGauge]) + Len(callbacks["process_cpu_usage_percent"]) <= MaxTicks
  /\ callbacks' = [callbacks EXCEPT ![LagGauge] = Append(@, lag)]
  /\ last' = [NoLast EXCEPT !.op = "tick", !.value = lag]
  /\ UNCHANGED <<telemetryVars, helperVars, collectorVars, requests, response, scrape, timers>>

\* The timer of 10 s: collectProcessMetrics
collectProcessMetrics(reading) ==
  /\ Len(callbacks[LagGauge]) + Len(callbacks["process_cpu_usage_percent"]) <= MaxTicks
  /\ callbacks' = Collected(callbacks, reading)
  /\ last' = [NoLast EXCEPT !.op = "collect", !.value = reading]
  /\ UNCHANGED <<telemetryVars, helperVars, collectorVars, requests, response, scrape, timers>>

\* A scrape of the process gauges: the meter runs every callback registered
\* on a gauge, and each makes one observation.
ProcessScrape(live) ==
  /\ scrape' = [done |-> TRUE, failing |-> {},
                reported |-> [g \in ProcessGauges |->
                                [i \in 1..Len(callbacks[g]) |->
                                   IF callbacks[g][i] = Live THEN live ELSE callbacks[g][i]]]]
  /\ last' = [NoLast EXCEPT !.op = "scrape", !.result = "collected"]
  /\ UNCHANGED <<telemetryVars, helperVars, collectorVars, requests, response, callbacks, timers>>

\* The environment variables of the process are given other values after
\* startup.
EnvChanges(prefix, store) ==
  /\ env' = [REACTORY_METRICS_PREFIX |-> prefix, DO_STORE_STATISTICS |-> store]
  /\ env' # env
  /\ last' = [NoLast EXCEPT !.op = "env"]
  /\ UNCHANGED <<httpVars, context, deps, persistenceEnabled, counters, histograms,
                 upDownCounters, gauges, instruments, sums, recorded, handles, sink, pending,
                 unhandled, disposed, updates, added, lastSet, helperVars, collectorVars>>

\* router.get('/metrics'), up to its await: the header is set and
\* register.metrics() is called.
MetricsGet ==
  /\ response.state \in {"idle", "done"}
  /\ response' = [NoResponse EXCEPT !.state = "awaiting",
                                    !.contentType = "text/plain; version=0.0.4"]
  /\ last' = [NoLast EXCEPT !.op = "GET /metrics"]
  /\ UNCHANGED <<telemetryVars, helperVars, collectorVars, requests, scrape, callbacks, timers>>

\* MetricsResume whose catch branch sends the error body without a status.
MetricsResume_noStatus(rejected) ==
  /\ response.state = "awaiting"
  /\ response' = IF rejected
                 THEN [response EXCEPT !.state = "done", !.threw = TRUE,
                                       !.contentType = "application/json",
                                       !.body = "error", !.sends = @ + 1]
                 ELSE [response EXCEPT !.state = "done", !.body = "metrics", !.sends = @ + 1]
  /\ last' = [NoLast EXCEPT !.op = "GET /metrics", !.result = "answered"]
  /\ UNCHANGED <<telemetryVars, helperVars, collectorVars, requests, scrape, callbacks, timers>>

\* The rest of the handler, once the promise of register.metrics() settles:
\* res.end(metrics), or the catch branch when the promise was rejected (the
\* exporter's request handler is called without a response object).
MetricsResume(rejected) ==
  /\ response.state = "awaiting"
  /\ response' = IF rejected
                 THEN [response EXCEPT !.state = "done", !.threw = TRUE, !.status = 500,
                                       !.contentType = "application/json",
                                       !.body = "error", !.sends = @ + 1]
                 ELSE [response EXCEPT !.state = "done", !.body = "metrics", !.sends = @ + 1]
  /\ last' = [NoLast EXCEPT !.op = "GET /metrics", !.result = "answered"]
  /\ UNCHANGED <<telemetryVars, helperVars, collectorVars, requests, scrape, callbacks, timers>>

\* The promise of publishStatistics settles and a suspended persistMetric runs
\* to its end; with a slow service it never does.
publishSettles ==
  /\ pending > 0
  /\ deps.service # "slow"
  /\ pending' = pending - 1
  /\ unhandled' = unhandled + Rejected(persistMetricResumed(deps.service))
  /\ UNCHANGED <<httpVars, context, env, deps, persistenceEnabled, counters, histograms, upDownCounters,
                 gauges, instruments, sums, recorded, handles, sink, disposed, updates,
                 added, lastSet, helperVars, collectorVars, last>>

\* dispose that also empties the storage of the meter.
dispose_clearsStorage ==
  /\ disposed < MaxDispose
  /\ counters' = EmptyMap
  /\ histograms' = EmptyMap
  /\ upDownCounters' = EmptyMap
  /\ gauges' = EmptyMap
  /\ sums' = EmptyMap
  /\ disposed' = disposed + 1
  /\ last' = [NoLast EXCEPT !.op = "dispose", !.result = "void"]
  /\ UNCHANGED <<httpVars, context, env, deps, persistenceEnabled, instruments, recorded, handles,
                 sink, pending, unhandled, updates, added, lastSet, helperVars, collectorVars>>

dispose ==
  /\ disposed < MaxDispose
  /\ counters' = EmptyMap
  /\ histograms' = EmptyMap
  /\ upDownCounters' = EmptyMap
  /\ gauges' = EmptyMap
  /\ disposed' = disposed + 1
  /\ last' = [NoLast EXCEPT !.op = "dispose", !.result = "void"]
  /\ UNCHANGED <<httpVars, context, env, deps, persistenceEnabled, instruments, sums, recorded, handles,
                 sink, pending, unhandled, updates, added, lastSet, helperVars, collectorVars>>

----------------------------------------------------------------------------
(* Specifications of the telemetry wrapper *)

\* Counters only, with every attribute object.
NextCounter ==
  \/ \E n \in MetricNames : createCounter(n, "default")
  \/ \E h \in handles, v \in Deltas, a \in RawLabels : CounterAdd(h, v, a)
  \/ dispose

SpecCounter == Init /\ [][NextCounter]_vars

\* Gauges only, on one metric name, with the attribute objects that hold the
\* same pairs in the two insertion orders.
OrderLabels ==
  { <<>>,
    << <<"method", GET>>, <<"partner_id", PartnerB>> >>,
    << <<"partner_id", PartnerB>>, <<"method", GET>> >> }

GaugeValues == {1, 2}

NextGauge ==
  \/ createGauge(<<"mem">>, "default")
  \/ \E h \in handles, v \in GaugeValues, a \in OrderLabels : GaugeSet(h, v, a)
  \/ \E h \in handles, a \in OrderLabels : GaugeGet(h, a)
  \/ dispose

SpecGauge == Init /\ [][NextGauge]_vars

\* Gauges on two metric names, set, disposed of and scraped beside an observe
\* that may throw for one entry.
NextScrape ==
  \/ \E n \in MetricNames : createGauge(n, "default")
  \/ \E h \in handles, a \in { <<>>, << <<"method", GET>> >>, << <<"method", POST>> >> } :
        GaugeSet(h, 1, a)
  \/ \E failing \in SUBSET UNION {KeysOf(instruments[i].values) : i \in 1..Len(instruments)} :
        Cardinality(failing) <= 1 /\ Scrape(failing)
  \/ dispose

SpecScrape == Init /\ [][NextScrape]_vars

\* GET /metrics requests one after the other, beside a gauge that is set while
\* the handler waits.
NextRoutes ==
  \/ createGauge(<<"mem">>, "default")
  \/ \E h \in handles, a \in { <<>>, << <<"method", GET>> >> } : GaugeSet(h, 1, a)
  \/ MetricsGet
  \/ \E rejected \in BOOLEAN : MetricsResume(rejected)

SpecRoutes == Init /\ [][NextRoutes]_vars

\* The four kinds of metric together, on one metric name and with one
\* attribute object.
RegistryLabels == { << <<"method", GET>> >> }

Next ==
  \/ createCounter(<<"req">>, "default")
  \/ createUpDownCounter(<<"req">>, "default")
  \/ createHistogram(<<"req">>, "default")
  \/ \E p \in PersistOptions : createGauge(<<"req">>, p)
  \/ \E h \in handles, v \in GaugeValues, a \in RegistryLabels : CounterAdd(h, v, a)
  \/ \E h \in handles, v \in GaugeValues, a \in RegistryLabels : UpDownCounterAdd(h, v, a)
  \/ \E h \in handles, v \in GaugeValues, a \in RegistryLabels : HistogramRecord(h, v, a)
  \/ \E h \in handles, v \in GaugeValues, a \in RegistryLabels : GaugeSet(h, v, a)
  \/ \E h \in handles, a \in RegistryLabels : GaugeGet(h, a)
  \/ dispose

Spec == Init /\ [][Next]_vars

\* One counter name, created and used while the environment changes.
NextConfig ==
  \/ createCounter(<<"req">>, "default")
  \/ \E h \in handles, a \in RegistryLabels : CounterAdd(h, 1, a)
  \/ \E prefix \in {<<>>, <<"myapp">>}, store \in {"true", Undefined} : EnvChanges(prefix, store)

SpecConfig == Init /\ [][NextConfig]_vars

\* One counter of the wrapper and the counter of the middleware, each with two
\* label sets.
NextSeries ==
  \/ createCounter(<<"req">>, "default")
  \/ \E h \in handles, a \in { << <<"method", GET>> >>, << <<"method", POST>> >> } :
        CounterAdd(h, 1, a)
  \/ \E r \in { <<GET, <<"/", "x">> >>, <<POST, <<"/", "y">> >> } : ReactoryPrometheus(r[1], r[2])

SpecSeries == Init /\ [][NextSeries]_vars

\* The three kinds of metric that persist their samples, the counter with
\* every persist option, beside a statistics service that behaves in any of
\* its ways.
InitPersistence ==
  /\ TelemetryInit
  /\ ~context.hasPartner
  /\ deps \in [service : Services, meterThrows : {FALSE}]
  /\ HelpersIdle
  /\ CollectorInit
  /\ HttpIdle

NextPersistence ==
  \/ \E p \in PersistOptions : createCounter(<<"req">>, p)
  \/ createHistogram(<<"req">>, "default")
  \/ createGauge(<<"req">>, "default")
  \/ \E h \in handles, a \in RegistryLabels : CounterAdd(h, 1, a)
  \/ \E h \in handles, a \in RegistryLabels : HistogramRecord(h, 1, a)
  \/ \E h \in handles, a \in RegistryLabels : GaugeSet(h, 1, a)
  \/ publishSettles

SpecPersistence == InitPersistence /\ [][NextPersistence]_vars

\* Errors raised inside the handle operations: a context whose partner has no
\* _id, a meter whose instruments throw, and values that are not finite.
RecordValues == {1, NaN, PosInfinity, NegInfinity}

InitFaults ==
  /\ context \in {c \in Contexts : ~c.hasPartner} \cup FaultyContexts
  /\ TelemetryFresh
  /\ deps \in [service : {"ok", "getServiceThrows"}, meterThrows : BOOLEAN]
  /\ HelpersIdle
  /\ CollectorInit
  /\ HttpIdle

NextFaults ==
  \/ createCounter(<<"req">>, "default")
  \/ createHistogram(<<"req">>, "default")
  \/ createGauge(<<"req">>, "default")
  \/ \E h \in handles, a \in RegistryLabels : CounterAdd(h, 1, a)
  \/ \E h \in handles, v \in RecordValues, a \in RegistryLabels : HistogramRecord(h, v, a)
  \/ \E h \in handles, a \in RegistryLabels : GaugeSet(h, 1, a)
  \/ \E h \in handles, a \in RegistryLabels : GaugeGet(h, a)
  \/ publishSettles

SpecFaults == InitFaults /\ [][NextFaults]_vars

----------------------------------------------------------------------------
(* Specifications of StatisticHelpers and GraphQLMetricsCollector *)

\* A telemetry wrapper that is not under study: no ambient context, default
\* environment.
TelemetryQuiet ==
  /\ TelemetryInit
  /\ DepsInit
  /\ ~context.hasPartner
  /\ env.DO_STORE_STATISTICS = Undefined

\* One createHistogram call on any observations and boundaries, then rendered.
InitHistogram ==
  /\ TelemetryQuiet
  /\ args \in HistogramArgs
  /\ stat = NoStat
  /\ lines = <<>>
  /\ CollectorInit
  /\ HttpIdle

NextHistogram == CallCreateHistogram \/ CallToPrometheusFormat

SpecHistogram == InitHistogram /\ [][NextHistogram]_vars

\* The attribute objects of the statistics that are rendered: two objects with
\* the same pairs in the two insertion orders, and label values that hold a
\* double quote, a backslash, a line feed and a closing brace.
RenderAttributes ==
  { <<>>,
    << <<"method", GET>> >>,
    << <<"method", GET>>, <<"route", <<"/", "x">> >> >>,
    << <<"route", <<"/", "x">> >>, <<"method", GET>> >>,
    << <<"route", <<"a", "\"", "b">> >> >>,
    << <<"route", <<"a", "\\", "b">> >> >>,
    << <<"route", <<"a", "\n", "b">> >> >>,
    << <<"route", <<"a", "}", "b">> >> >> }

\* One createHistogram call on any of these attribute objects, then rendered.
InitRender ==
  /\ TelemetryQuiet
  /\ args \in [observations : { <<>>, <<1>>, <<1, 14>> }, hasBuckets : {TRUE},
               buckets : { <<2>>, <<2, 10>> }, attributes : RenderAttributes]
  /\ stat = NoStat
  /\ lines = <<>>
  /\ CollectorInit
  /\ HttpIdle

SpecRender == InitRender /\ [][NextHistogram]_vars

OperationNames == { <<"getUser">>, <<"a", ":", "b">> }
OperationTypes == {"query"}
Durations == {3, 6000}

\* A successful operation and a failed one with its error type.
Outcomes == { [status |-> "success", errorType |-> <<>>],
              [status |-> "error", errorType |-> <<"TypeError">>] }

NextCollector ==
  \/ \E n \in OperationNames, d \in Durations, t \in OperationTypes, o \in Outcomes :
        recordOperation(n, d, t, o.status, o.errorType)
  \/ GetAllMetrics
  \/ reset

\* A fresh collector beside an idle telemetry wrapper.
InitCollector == TelemetryQuiet /\ HelpersIdle /\ CollectorInit /\ HttpIdle

SpecCollector == InitCollector /\ [][NextCollector]_vars

\* The counters of the telemetry wrapper and of the collector together.
NextCounters ==
  \/ createCounter(<<"req">>, "default")
  \/ \E h \in handles, v \in Deltas, a \in RegistryLabels : CounterAdd(h, v, a)
  \/ dispose
  \/ \E o \in Outcomes : recordOperation(<<"getUser">>, 3, "query", o.status, o.errorType)
  \/ GetAllMetrics
  \/ reset

SpecCounters == InitCollector /\ [][NextCounters]_vars

\* The collector with operations that succeed, fail with an error type and
\* fail without one (trackGraphQLOperation passes the constructor name of the
\* error, or undefined).
ErrorTypes == { <<>>, <<"TypeError">> }

NextKeys ==
  \/ \E n \in OperationNames, t \in OperationTypes :
        \/ recordOperation(n, 3, t, "success", <<>>)
        \/ \E e \in ErrorTypes : recordOperation(n, 3, t, "error", e)
  \/ GetAllMetrics
  \/ reset

SpecKeys == InitCollector /\ [][NextKeys]_vars

\* The improved middleware after ReactoryPrometheus(app) returned: the
\* initial collectProcessMetrics() has run; then its two timers tick and the
\* gauges are scraped.
Readings == {1, 2}

InitProcess ==
  /\ TelemetryQuiet
  /\ HelpersIdle
  /\ CollectorInit
  /\ requests = <<>>
  /\ response = NoResponse
  /\ scrape = [done |-> FALSE, failing |-> {}, reported |-> <<>>]
  /\ \E reading \in Readings : callbacks = Collected([g \in ProcessGauges |-> <<>>], reading)
  /\ timers = <<>>

NextProcess ==
  \/ \E lag \in {0, 1} : LagTick(lag)
  \/ \E reading \in Readings : collectProcessMetrics(reading)
  \/ ProcessScrape(3)

SpecProcess == InitProcess /\ [][NextProcess]_vars

\* Operations timed with measure and measureAsync; the clock does not go back.
TimerDurations == {0, 2}

InitTimers ==
  /\ TelemetryInit
  /\ ~context.hasPartner
  /\ DepsInit
  /\ HelpersIdle
  /\ CollectorInit
  /\ HttpIdle

NextTimers ==
  \/ \E n \in MetricNames, o \in OperationOutcomes, d \in TimerDurations, a \in RegistryLabels :
       measure(n, o, d, a)
  \/ \E n \in MetricNames, a \in RegistryLabels : measureAsync(n, a)
  \/ \E i \in 1..Len(timers), o \in OperationOutcomes : operationSettles(i, o)
  \/ \E i \in 1..Len(timers), d \in TimerDurations : measureAsyncResumes(i, d)
  \/ publishSettles

SpecTimers == InitTimers /\ [][NextTimers]_vars

\* createSummary on any observations and any quantiles in (0, 1].
SummaryObservations == {-1, 0, 2, 5}

SummaryQuantiles == {1, 50, 90, 100}

SummaryArgs ==
  [observations : SeqsUpTo(SummaryObservations, MaxObservations),
   hasQuantiles : {TRUE},
   quantiles : SeqsUpTo(SummaryQuantiles, 2) \ {<<>>}]
  \cup
  [observations : SeqsUpTo(SummaryObservations, MaxObservations),
   hasQuantiles : {FALSE},
   quantiles : {<<>>}]

InitSummary ==
  /\ TelemetryQuiet
  /\ args \in SummaryArgs
  /\ stat = NoStat
  /\ lines = <<>>
  /\ CollectorInit
  /\ HttpIdle

NextSummary == CallCreateSummary \/ SummaryRead

SpecSummary == InitSummary /\ [][NextSummary]_vars

\* Concurrent requests through the improved middleware: requests enter and
\* their responses are ended in any order, with status 200 and a body or with
\* status 500 and none.
NextMiddleware ==
  \/ \E requestSize \in {0, 5} : ImprovedRequest(GET, <<"/", "x">>, requestSize)
  \/ \E i \in 1..Len(requests), res \in { <<200, 5>>, <<500, 0>> } :
        ImprovedEnd(i, res[1], 1, res[2])

SpecMiddleware == InitCollector /\ [][NextMiddleware]_vars

\* The collector with one operation that succeeds or fails, collected and
\* rendered.
NextExposition ==
  \/ \E d \in Durations, o \in Outcomes :
        recordOperation(<<"getUser">>, d, "query", o.status, o.errorType)
  \/ GetAllMetrics
  \/ RenderAllMetrics

SpecExposition == InitCollector /\ [][NextExposition]_vars

----------------------------------------------------------------------------
(* Properties of the telemetry wrapper *)

CounterSeries == {key \in DOMAIN sums : key[1] = "counter"}

AddedKey(key) == <<key[2], LabelSetOf(key[3])>>

\* C1: for every counter and label set, the exported value of the series is
\* exactly the sum of the non-negative deltas passed to add for that counter
\* and label set: no add is lost and none is applied twice.
C1_CounterSumExact ==
  /\ \A key \in CounterSeries :
        AddedKey(key) \in DOMAIN added /\ sums[key] = added[AddedKey(key)]
  /\ \A k \in DOMAIN added :
        \E key \in CounterSeries : AddedKey(key) = k /\ sums[key] = added[k]

\* Two adds (1 then 2, or 2 then 1) have reached one series.
C1_Witness ==
  /\ last.op = "add" /\ last.kind = "counter" /\ last.value > 0
  /\ Exported("counter", last.name, last.enriched) = 3

NegativeCounterAdd(l) == l.op = "add" /\ l.kind = "counter" /\ l.value < 0

\* C2 as stated: a counter add with a negative delta fails and the caller is
\* told (InvalidDelta).
C2_NegativeAddReported == NegativeCounterAdd(last) => last.result = "InvalidDelta"

\* C2 as amended: a counter add with a negative delta never changes the
\* accumulated value of any series, and it returns to the caller normally,
\* without a result or an error.
C2_NegativeAddIgnored ==
  [][NegativeCounterAdd(last') => (sums' = sums /\ last'.result = "void")]_vars

\* A negative add on a series that has already accumulated a positive value.
C2_Witness ==
  /\ NegativeCounterAdd(last)
  /\ Exported("counter", last.name, last.enriched) > 0

\* C3: a metric name requested with a kind other than the one it is defined
\* with fails with MetricKindConflict, and no name carries two kinds.
C3_KindConflictRejected ==
  /\ (/\ last.op = "create"
      /\ \E i \in 1..Len(instruments) :
            instruments[i].name = last.name /\ instruments[i].kind # last.kind)
     => last.result = "MetricKindConflict"
  /\ \A i, j \in 1..Len(instruments) :
        instruments[i].name = instruments[j].name => instruments[i].kind = instruments[j].kind

SameMetric(h1, h2) == h1.kind = h2.kind /\ h1.name = h2.name

InstrumentsOf(kind, fullName, epoch) ==
  {i \in 1..Len(instruments) :
     /\ instruments[i].kind = kind
     /\ instruments[i].name = fullName
     /\ instruments[i].epoch = epoch}

\* C4 as stated: any two handles of one name and kind share state (a gauge
\* value set through one is what get returns through the other), and the
\* instrument of a name and kind is created only once.
C4_HandlesShareState ==
  /\ \A h \in handles :
        (last.op = "set" /\ h.kind = "gauge" /\ h.name = last.name)
        => (ValuesHas(instruments, h, last.raw)
            /\ ValuesGet(instruments, h, last.raw) = last.value)
  /\ \A h \in handles :
        Cardinality(UNION {InstrumentsOf(h.kind, h.name, e) : e \in 0..disposed}) = 1

\* C4 as amended: two handles of one name and kind requested with no
\* dispose() between the two requests share state (they hold the same
\* instrument; a gauge value set through one is what get returns through the
\* other), and between two dispose() calls the instrument of a name and kind
\* is created only by the first request.
C4_HandlesShareStateUntilDispose ==
  /\ \A h1, h2 \in handles :
        (SameMetric(h1, h2) /\ h1.epoch = h2.epoch) => h1.inst = h2.inst
  /\ \A h \in handles :
        (last.op = "set" /\ h.kind = "gauge" /\ h.name = last.name /\ h.epoch = last.epoch)
        => (ValuesHas(instruments, h, last.raw)
            /\ ValuesGet(instruments, h, last.raw) = last.value)
  /\ \A h \in handles : Cardinality(InstrumentsOf(h.kind, h.name, h.epoch)) = 1

\* A gauge value was set through one handle while a second, distinct handle
\* of the same gauge, requested without a dispose() in between, exists.
C4_Witness ==
  /\ last.op = "set"
  /\ \E h1, h2 \in handles :
        /\ h1 # h2 /\ SameMetric(h1, h2) /\ h1.epoch = h2.epoch
        /\ h1.kind = "gauge" /\ h1.name = last.name /\ h1.epoch = last.epoch
        /\ h1.inst = last.handle
        /\ ValuesGet(instruments, h2, last.raw) = last.value

SameLabelSet(a, b) == LabelSetOf(a) = LabelSetOf(b)

\* C5: after gauge set(v, L1), get(L2) returns v for every attribute object
\* L2 holding the same pairs as L1 in whatever order, and the gauge stores
\* one single value for that label set.
C5_LabelOrderIrrelevant ==
  last.op = "set" =>
    /\ \A a \in OrderLabels :
          SameLabelSet(a, last.raw) =>
            /\ ValuesHas(instruments, [inst |-> last.handle], a)
            /\ ValuesGet(instruments, [inst |-> last.handle], a) = last.value
    /\ Cardinality({i \in 1..Len(instruments[last.handle].values) :
          SameLabelSet(JSONparse(instruments[last.handle].values[i][1]), last.enriched)}) = 1

\* C10: every key the caller passed keeps the caller's value in the enriched
\* attributes.
C10_CallerLabelsWin ==
  last.op \in {"add", "record", "set", "get"} =>
    \A k \in KeysOf(last.raw) : GetKey(last.enriched, k) = GetKey(last.raw, k)

----------------------------------------------------------------------------
(* Properties of StatisticHelpers.createHistogram *)

Boundaries == IF args.hasBuckets THEN args.buckets ELSE DefaultBuckets

NumberAtMost(le) ==
  Cardinality({j \in 1..Len(args.observations) : args.observations[j] <= le})

RECURSIVE SumFirst(_, _)
SumFirst(values, n) == IF n = 0 THEN 0 ELSE values[n] + SumFirst(values, n - 1)

SampleLines(ls) == SelectSeq(ls, LAMBDA l : l.tag = "sample")

\* C6: for every list of observations and every list of boundaries, bucket i
\* counts the observations at or below boundary i, count (and the +Inf bucket
\* and _count lines) is the number of observations, and sum (and the _sum line)
\* is their sum.
C6_HistogramCounts ==
  /\ stat # NoStat =>
       /\ Len(stat.histogramData.buckets) = Len(Boundaries)
       /\ \A i \in 1..Len(Boundaries) :
            /\ stat.histogramData.buckets[i].le = Boundaries[i]
            /\ stat.histogramData.buckets[i].count = NumberAtMost(Boundaries[i])
       /\ stat.histogramData.count = Len(args.observations)
       /\ stat.histogramData.sum = SumFirst(args.observations, Len(args.observations))
  /\ lines # <<>> =>
       LET n == Len(Boundaries)
           body == SampleLines(lines)
       IN /\ Len(body) = n + 3
          /\ \A i \in 1..n : body[i].value = NumberAtMost(Boundaries[i])
          /\ body[n + 1].value = Len(args.observations)
          /\ body[n + 2].value = SumFirst(args.observations, Len(args.observations))
          /\ body[n + 3].value = Len(args.observations)

\* Boundaries 1, 5, 10 with observations 0.5, 3, 7, 12 (in units of 0.5),
\* rendered: buckets 1, 2, 3, +Inf 4, sum 22.5, count 4.
C6_Witness ==
  /\ args.hasBuckets /\ args.buckets = <<2, 10, 20>>
  /\ args.observations = <<1, 6, 14, 24>>
  /\ lines # <<>>
  /\ [i \in 1..6 |-> SampleLines(lines)[i].value] = <<1, 2, 3, 4, 45, 4>>

\* C7: whatever the order in which the caller lists the boundaries, the count
\* of bucket i is at least the count of bucket i-1.
C7_BucketsCumulative ==
  stat # NoStat =>
    \A i \in 2..Len(stat.histogramData.buckets) :
      stat.histogramData.buckets[i].count >= stat.histogramData.buckets[i - 1].count

----------------------------------------------------------------------------
(* Properties of GraphQLMetricsCollector *)

\* Statistic i of one snapshot and statistic j of another are the same series:
\* the same metric made from the same Map key.
SameSeries(old, i, new, j) ==
  old.stats[i].name = new.stats[j].name /\ old.keys[i] = new.keys[j]

HistogramNotBelow(old, new) ==
  /\ new.histogramData.count >= old.histogramData.count
  /\ \A b \in 1..Len(old.histogramData.buckets) :
       new.histogramData.buckets[b].count >= old.histogramData.buckets[b].count

\* Every histogram series of the older snapshot that is also in the newer one
\* has no bucket count above its count in the newer one.
BucketsNonDecreasing(old, new) ==
  \A i \in 1..Len(old.stats), j \in 1..Len(new.stats) :
    (old.stats[i].type = "histogram" /\ SameSeries(old, i, new, j))
    => HistogramNotBelow(old.stats[i], new.stats[j])

\* In the snapshot just taken, the +Inf bucket line and the _count line of
\* every histogram carry the number of recordOperation calls made for its
\* operation since the collector was last emptied.
PlusInfIsTotal ==
  last.op = "getAllMetrics" =>
    /\ Len(SelectSeq(snapshot.stats, LAMBDA s : s.type = "histogram")) = Len(calls)
    /\ \A i \in 1..Len(calls) :
         LET body == SampleLines(toPrometheusFormat(snapshot.stats[i]))
         IN /\ snapshot.stats[i].type = "histogram"
            /\ body[Len(body) - 2].value = calls[i][2]
            /\ body[Len(body)].value = calls[i][2]

\* C8 as stated: over any sequence of recordOperation, getAllMetrics and reset,
\* every histogram bucket count is non-decreasing from one snapshot to the
\* next, and in every snapshot the +Inf bucket is the total observation count.
C8_BucketsNeverDecrease ==
  BucketsNonDecreasing(prevSnapshot, snapshot) /\ PlusInfIsTotal

\* C8 as amended: every histogram bucket count is non-decreasing from one
\* snapshot to the next unless reset() was called between the two, and in
\* every snapshot the +Inf bucket is the total observation count since the
\* last reset().
C8_BucketsNeverDecreaseUntilReset ==
  (~resetBetween => BucketsNonDecreasing(prevSnapshot, snapshot)) /\ PlusInfIsTotal

\* Two snapshots with no reset between them, in which one histogram went from
\* one observation to two and a bucket count grew.
C8_Witness ==
  /\ last.op = "getAllMetrics" /\ ~resetBetween
  /\ \E i \in 1..Len(prevSnapshot.stats), j \in 1..Len(snapshot.stats) :
       /\ prevSnapshot.stats[i].type = "histogram" /\ SameSeries(prevSnapshot, i, snapshot, j)
       /\ prevSnapshot.stats[i].histogramData.count = 1
       /\ snapshot.stats[j].histogramData.count = 2
       /\ \E b \in 1..Len(CollectorBuckets) :
            snapshot.stats[j].histogramData.buckets[b].count
              > prevSnapshot.stats[i].histogramData.buckets[b].count

----------------------------------------------------------------------------
(* Properties of the counters of both components *)

\* Every counter series of the older snapshot that is also in the newer one
\* has at least its older value there.
CountersNonDecreasing(old, new) ==
  \A i \in 1..Len(old.stats), j \in 1..Len(new.stats) :
    (old.stats[i].type = "counter" /\ SameSeries(old, i, new, j))
    => new.stats[j].value >= old.stats[i].value

\* No step lowers the exported value of a counter series of the wrapper.
WrapperCountersNonDecreasing ==
  [][\A key \in CounterSeries : key \in DOMAIN sums' /\ sums'[key] >= sums[key]]_vars

\* C9 as stated: after any sequence of create, add (with any delta), dispose,
\* recordOperation and reset, the exported value of each counter series is at
\* least its value in every earlier state.
C9_CountersNeverDecrease ==
  WrapperCountersNonDecreasing /\ [](CountersNonDecreasing(prevSnapshot, snapshot))

\* C9 as amended: the exported value of each counter series never decreases
\* over any sequence of create, add (with any delta), dispose and
\* recordOperation; GraphQLMetricsCollector.reset() empties the collector's
\* counters, which start again from zero.
C9_CountersNeverDecreaseUntilReset ==
  WrapperCountersNonDecreasing
  /\ [](~resetBetween => CountersNonDecreasing(prevSnapshot, snapshot))

\* A negative add on a wrapper counter that holds a positive value, after a
\* dispose(), while the collector's latest two snapshots, with no reset
\* between them, show a counter going from 1 to 2.
C9_Witness ==
  /\ C2_Witness
  /\ disposed > 0
  /\ ~resetBetween
  /\ \E i \in 1..Len(prevSnapshot.stats), j \in 1..Len(snapshot.stats) :
       /\ prevSnapshot.stats[i].type = "counter" /\ SameSeries(prevSnapshot, i, snapshot, j)
       /\ prevSnapshot.stats[i].value = 1 /\ snapshot.stats[j].value = 2

----------------------------------------------------------------------------
(* Properties of enrichment, gauges and persistence *)

\* C11: enrichment never mutates the caller's attributes object: after any
\* add, record, set or get call the object the caller passed holds exactly the
\* keys and values it held before the call.
C11_CallerObjectUntouched ==
  last.op \in {"add", "record", "set", "get"} => last.passed = last.raw

\* A call that passed attributes to which enrichment added the partner fields.
C11_Witness ==
  /\ last.op \in {"add", "record", "set", "get"}
  /\ context.hasPartner
  /\ last.raw # <<>>
  /\ HasKey(last.enriched, "partner_id") /\ ~HasKey(last.raw, "partner_id")
  /\ last.passed = last.raw

\* The entries of the values Map of instrument inst that belong to a label set.
EntriesOf(inst, labelSet) ==
  {i \in 1..Len(instruments[inst].values) :
     LabelSetOf(JSONparse(instruments[inst].values[i][1])) = labelSet}

\* C12: gauge set is last-write-wins per label set and loses no write: for
\* every gauge and label set that was set, get returns the value of the last
\* set for that label set, the next scrape reports that value, and sets on
\* other label sets leave it alone.
C12_GaugeLastWriteWins ==
  \A key \in DOMAIN lastSet :
    /\ EntriesOf(key[1], key[2]) # {}
    /\ \A i \in EntriesOf(key[1], key[2]) : instruments[key[1]].values[i][2] = lastSet[key]
    /\ \E k \in DOMAIN GaugeObserved(key[1]) :
         LabelSetOf(k) = key[2] /\ GaugeObserved(key[1])[k] = lastSet[key]

\* C13: gauge get returns the last value set for exactly the label set it is
\* asked for, or no value (undefined) if that label set was never set, and it
\* is read-only: a get leaves the values table of the gauge as it was and
\* creates no series.
C13_GaugeGetReadsLastSet ==
  /\ [](last.op = "get" =>
          IF <<last.handle, LabelSetOf(last.enriched)>> \in DOMAIN lastSet
          THEN /\ last.result = "value"
               /\ last.value = lastSet[<<last.handle, LabelSetOf(last.enriched)>>]
          ELSE last.result = Undefined)
  /\ [][last'.op = "get" => (instruments' = instruments /\ sums' = sums /\ recorded' = recorded)]_vars

\* C14: gauge set is idempotent under repetition: a set that repeats the set
\* before it (same gauge, same value x, same attributes) leaves the values
\* table as the first set left it, with the same number of entries, and the
\* value stored and exported for the label set is x.
C14_GaugeSetIdempotent ==
  [][(last'.op = "set" /\ last'.repeat) =>
       /\ instruments' = instruments
       /\ ValuesHas(instruments', [inst |-> last'.handle], last'.raw)
       /\ ValuesGet(instruments', [inst |-> last'.handle], last'.raw) = last'.value
       /\ ObserveAll(instruments'[last'.handle].values, <<>>) = GaugeObserved(last'.handle)
       /\ ObserveAll(instruments'[last'.handle].values, <<>>)[hashAttributes(last'.enriched)]
            = last'.value]_vars

\* A set that repeated the set before it, on attributes that enrichment extends.
C14_Witness ==
  /\ last.op = "set" /\ last.repeat
  /\ last.raw # <<>>
  /\ updates = 2
  /\ Len(instruments[last.handle].values) = 1

\* The step of an add, record or set (the steps that count in updates) changes the series in memory as the
\* call's arguments say, whatever the statistics service does.
RecordedInMemory ==
  /\ (updates' = updates + 1 /\ last'.op = "add") =>
       sums' = MeterAdd(sums, last'.kind, last'.name, last'.value, last'.enriched)
  /\ (updates' = updates + 1 /\ last'.op = "record") =>
       recorded' \in MeterRecordOutcomes(recorded, last'.name, last'.value, last'.enriched)
  /\ (updates' = updates + 1 /\ last'.op = "set") =>
       instruments' = [instruments EXCEPT ![last'.handle].values =
                         ObjAssign(@, JSONstringify(last'.enriched), last'.value)]

\* C15: a persistence failure never reaches the metric producer: whether the
\* statistics service is missing, getService throws, or publishStatistics
\* throws or rejects, add / record / set return normally, the series in memory
\* is updated exactly as when persistence succeeds, and no promise of
\* persistMetric is ever rejected.
C15_PersistenceFailureContained ==
  /\ [](unhandled = 0)
  /\ [](last.op \in {"add", "record", "set"} => last.result = "void")
  /\ [][RecordedInMemory]_vars

\* An add whose sample was handed to a service that rejected it, after the
\* rejection has been dealt with.
C15_Witness ==
  /\ deps.service = "publishRejects"
  /\ last.op = "add" /\ last.persist
  /\ Len(sink) = 1 /\ pending = 0
  /\ Exported("counter", last.name, last.enriched) = 1

\* C16: metric recording never waits for the persistence sink: add / record /
\* set can always be called and complete, also while earlier calls of
\* publishStatistics have not finished and with a service that never
\* finishes, and what they record is in memory when they return.
C16_RecordingNeverWaits ==
  /\ \A h \in handles :
       updates < MaxUpdates =>
         /\ h.kind = "counter" => ENABLED CounterAdd(h, 1, <<>>)
         /\ h.kind = "histogram" => ENABLED HistogramRecord(h, 1, <<>>)
         /\ h.kind = "gauge" => ENABLED GaugeSet(h, 1, <<>>)
  /\ last.op = "add" =>
       /\ last.result = "void"
       /\ Exported("counter", last.name, last.enriched)
            = added[<<last.name, LabelSetOf(last.enriched)>>]
  /\ last.op = "record" =>
       /\ last.result = "void"
       /\ LET series == recorded[SeriesKey("histogram", last.name, last.enriched)]
          IN series[Len(series)] = last.value
  /\ last.op = "set" =>
       /\ last.result = "void"
       /\ ValuesGet(instruments, [inst |-> last.handle], last.raw) = last.value

\* A second record that completed while the publishStatistics calls of both
\* records are still outstanding at a service that never finishes.
C16_Witness ==
  /\ deps.service = "slow"
  /\ pending = 2
  /\ updates = 2
  /\ last.op = "record"
  /\ Len(recorded[SeriesKey("histogram", last.name, last.enriched)]) = 2

\* An add, record or set has handed its sample to publishStatistics.
Forwarded == Len(sink') = Len(sink) + 1

\* C17 as stated: a sample is forwarded to the sink exactly when the persist
\* option of the metric, if given, is true, and if omitted, when the
\* process-wide flag is on.
C17_SinkFollowsOption ==
  [][(updates' = updates + 1 /\ deps.service = "ok") =>
       (Forwarded <=> (IF last'.option = "default" THEN env.DO_STORE_STATISTICS = "true"
                       ELSE last'.option = "true"))]_vars

\* C17, amended: a sample is forwarded to the sink exactly when the
\* process-wide flag DO_STORE_STATISTICS was 'true' at construction and the
\* persist option of the metric is not false (true or omitted), provided
\* getService returns a service; persist: true does not turn persistence on
\* when the flag is off, and otherwise the sink is not called.
C17_SinkFollowsFlagAndOption ==
  /\ [](persistenceEnabled = (env.DO_STORE_STATISTICS = "true"))
  /\ [][updates' = updates + 1 =>
          IF /\ env.DO_STORE_STATISTICS = "true"
             /\ last'.option # "false"
             /\ PublishCalled(deps.service)
             /\ ~last'.threw
          THEN /\ Forwarded
               /\ sink'[Len(sink')] = [name |-> last'.name, type |-> last'.kind,
                                       value |-> last'.value, attributes |-> last'.enriched]
               /\ SubSeq(sink', 1, Len(sink)) = sink
          ELSE sink' = sink]_vars

\* An add through a counter created with persist: true while the flag is off:
\* nothing was forwarded.
C17_Witness ==
  /\ env.DO_STORE_STATISTICS = Undefined
  /\ deps.service = "ok"
  /\ last.op = "add" /\ last.option = "true"
  /\ Exported("counter", last.name, last.enriched) = 1
  /\ sink = <<>>

\* C18: histogram record with a value that is not finite (NaN, +Infinity,
\* -Infinity) is rejected with InvalidValue before any shared state is
\* touched: the caller is notified, and the recorded values (count, sum and
\* buckets) and the persistence sink are left unchanged.
C18_NonFiniteRecordRejected ==
  [][(updates' = updates + 1 /\ last'.op = "record" /\ ~IsFinite(last'.value)) =>
       /\ last'.result = "InvalidValue"
       /\ recorded' = recorded
       /\ sink' = sink]_vars

\* C19: telemetry operations never throw into application flow: for every
\* input, and when enrichment, the instrument or the statistics service
\* raises an error, add, record and set return normally, and get returns a
\* value or, when an error was raised, no value.
C19_OperationsNeverThrow ==
  /\ last.op \in {"add", "record", "set"} => last.result = "void"
  /\ last.op = "get" =>
       /\ last.result \in {"value", Undefined}
       /\ last.threw => last.result = Undefined
  /\ unhandled = 0

\* A get during which enrichAttributes threw, on a gauge no set could reach.
C19_Witness ==
  /\ last.op = "get" /\ last.threw /\ enrichThrows
  /\ last.result = Undefined
  /\ updates = 2
  /\ instruments[last.handle].values = <<>>

\* C20: a series and its underlying instrument are created at most once:
\* among the create calls for one kind and metric name with no dispose()
\* between them exactly one creates the instrument and every handle refers to
\* that one, and a gauge holds exactly one series (one entry of its values
\* table) per label set, whichever calls accessed it first.
C20_CreatedAtMostOnce ==
  /\ \A i, j \in 1..Len(instruments) :
       ( /\ instruments[i].kind = instruments[j].kind
         /\ instruments[i].name = instruments[j].name
         /\ instruments[i].epoch = instruments[j].epoch ) => i = j
  /\ \A h1, h2 \in handles :
       (SameMetric(h1, h2) /\ h1.epoch = h2.epoch) => h1.inst = h2.inst
  /\ \A i \in 1..Len(instruments) :
       \A p, q \in 1..Len(instruments[i].values) :
         LabelSetOf(JSONparse(instruments[i].values[p][1]))
           = LabelSetOf(JSONparse(instruments[i].values[q][1])) => p = q

----------------------------------------------------------------------------
(* Properties of the rendered exposition text *)

\* Reading a label block of the exposition format back into its pairs: a label
\* value runs up to the first double quote that is not escaped, the escapes
\* are \\, \" and \n, and a line ends at a line feed.
Malformed == << <<"malformed", <<>> >> >>

RECURSIVE ReadValue(_, _)
ReadValue(text, acc) ==
  IF text = <<>> \/ Head(text) = "\n" THEN [ok |-> FALSE, value |-> acc, rest |-> <<>>]
  ELSE IF Head(text) = "\"" THEN [ok |-> TRUE, value |-> acc, rest |-> Tail(text)]
  ELSE IF Head(text) = "\\"
       THEN IF Len(text) >= 2 /\ text[2] \in {"\\", "\"", "n"}
            THEN ReadValue(Tail(Tail(text)),
                           Append(acc, IF text[2] = "n" THEN "\n" ELSE text[2]))
            ELSE [ok |-> FALSE, value |-> acc, rest |-> <<>>]
  ELSE ReadValue(Tail(text), Append(acc, Head(text)))

RECURSIVE ReadPairs(_, _)
ReadPairs(text, acc) ==
  IF Len(text) < 3 \/ text[2] # "=" \/ text[3] # "\"" THEN Malformed
  ELSE LET v == ReadValue(SubSeq(text, 4, Len(text)), <<>>)
       IN IF ~v.ok \/ v.rest = <<>> THEN Malformed
          ELSE IF v.rest = <<"}">> THEN Append(acc, <<text[1], v.value>>)
          ELSE IF Head(v.rest) = "," THEN ReadPairs(Tail(v.rest), Append(acc, <<text[1], v.value>>))
          ELSE Malformed

ParseLabels(text) ==
  IF text = <<>> THEN <<>>
  ELSE IF Head(text) # "{" THEN Malformed
  ELSE ReadPairs(Tail(text), <<>>)

\* C22: for every histogram statistic, with an empty or a non-empty attribute
\* set and whatever characters the label values hold, the rendered text has one
\* well-formed line per bucket, name_bucket{<labels>,le="<boundary>"} <count>,
\* its label block closed by } and carrying the le label of the bucket, then
\* the le="+Inf" bucket line, then the _sum and _count lines.
C22_BucketLinesWellFormed ==
  lines # <<>> =>
    LET buckets == stat.histogramData.buckets
        n == Len(buckets)
        body == SampleLines(lines)
    IN /\ Len(body) = n + 3
       /\ \A i \in 1..n :
            /\ body[i].name = stat.name \o <<"_bucket">>
            /\ ParseLabels(body[i].labels) =
                 stat.attributes \o << <<"le", <<ToString(buckets[i].le)>> >> >>
            /\ body[i].value = buckets[i].count
       /\ body[n + 1].name = stat.name \o <<"_bucket">>
       /\ ParseLabels(body[n + 1].labels) = stat.attributes \o << <<"le", <<"+Inf">> >> >>
       /\ body[n + 2].name = stat.name \o <<"_sum">>
       /\ body[n + 3].name = stat.name \o <<"_count">>

\* C23: every label value is escaped in the rendered text, so that each
\* rendered data line reads back to the key/value pairs of the statistic.
C23_LabelsReadBack ==
  lines # <<>> =>
    LET body == SampleLines(lines)
    IN \A i \in Len(body) - 1..Len(body) : ParseLabels(body[i].labels) = stat.attributes

\* C24: label keys are rendered in lexicographic order: a statistic with the
\* same name and the same pairs inserted in another order renders to the same
\* lines.
C24_KeyOrderIrrelevant ==
  lines # <<>> =>
    \A a \in RenderAttributes :
      {a[i] : i \in 1..Len(a)} = {stat.attributes[i] : i \in 1..Len(stat.attributes)}
        => toPrometheusFormat([stat EXCEPT !.attributes = a]) = lines

\* The TYPE lines of a metric name in a rendered text.
TypeLines(ls, name) == {i \in 1..Len(ls) : ls[i].tag = "TYPE" /\ ls[i].name = name}

\* C25: in a render of all collected metrics every metric name has exactly one
\* TYPE line, also when the metric has several label sets.
C25_OneTypeLinePerMetric ==
  last.op = "toPrometheusFormat" =>
    \A i \in 1..Len(snapshot.stats) :
      Cardinality(TypeLines(lines, snapshot.stats[i].name)) = 1

----------------------------------------------------------------------------
(* Properties of scrapes and of the HTTP layer *)

\* C21: a scrape isolates failures per series: when reporting one series
\* fails, that series is skipped and every other series of that gauge and of
\* every other gauge is reported by the same scrape.
C21_FailuresIsolated ==
  last.op = "scrape" =>
    \A i \in DOMAIN scrape.reported :
      \A j \in 1..Len(instruments[i].values) :
        instruments[i].values[j][1] \notin scrape.failing
          => hashAttributes(JSONparse(instruments[i].values[j][1])) \in DOMAIN scrape.reported[i]

\* C26: the scrape handler answers every request with exactly one of two
\* outcomes: success with Content-Type text/plain; version=0.0.4 and the body
\* register.metrics() yielded, or, when rendering throws, status 500 with a
\* JSON error body; nothing is sent before the outcome is known.
C26_OneOutcome ==
  /\ response.state # "done" => response.sends = 0
  /\ response.state = "done" =>
       /\ response.sends = 1
       /\ IF response.threw
          THEN response.status = 500 /\ response.contentType = "application/json"
               /\ response.body = "error"
          ELSE response.status = 200 /\ response.contentType = "text/plain; version=0.0.4"
               /\ response.body = "metrics"

\* A request whose rendering threw and was answered.
C26_Witness ==
  response.state = "done" /\ response.threw /\ response.status = 500

\* C27: configuration is read once at startup: every handle made for the raw
\* name req carries the same full name and the same persistence flag, and the
\* flag of the registry never changes, whatever happens to the environment
\* variables after startup.
C27_ConfigReadOnce ==
  /\ [](\A h1, h2 \in handles : h1.name = h2.name /\ h1.persist = h2.persist)
  /\ [][persistenceEnabled' = persistenceEnabled]_vars

\* C28: series of one counter with different label sets accumulate
\* independently: an add on label set L adds the value to the series of L and
\* leaves every other series of that counter and of every other metric
\* unchanged.
C28_SeriesIndependent ==
  [][sums' # sums =>
       LET key == SeriesKey("counter", last'.name, last'.enriched)
       IN /\ key \in DOMAIN sums'
          /\ sums'[key] = (IF key \in DOMAIN sums THEN sums[key] ELSE 0) + last'.value
          /\ DOMAIN sums' = DOMAIN sums \cup {key}
          /\ \A k \in DOMAIN sums : k # key => sums'[k] = sums[k]
          /\ recorded' = recorded
          /\ instruments' = instruments]_vars

\* Three requests GET /x and one POST /y: 3 and 1 on two series, beside a
\* counter of the wrapper with two series of its own.
C28_Witness ==
  /\ Exported("counter", <<"http_requests_total">>,
              << <<"method", GET>>, <<"path", <<"/", "x">> >> >>) = 3
  /\ Exported("counter", <<"http_requests_total">>,
              << <<"method", POST>>, <<"path", <<"/", "y">> >> >>) = 1
  /\ \E h \in handles :
       /\ Exported("counter", h.name, enrichAttributes(<< <<"method", GET>> >>)) = 1
       /\ Exported("counter", h.name, enrichAttributes(<< <<"method", POST>> >>)) = 1

\* C30: recording precedes persistence: within add / record / set a sample is
\* handed to the sink only when enrichment and the update in memory have
\* succeeded; when either throws nothing is forwarded; and the labels forwarded
\* are the enriched labels of the series updated in memory.
C30_RecordingPrecedesPersistence ==
  [][updates' = updates + 1 =>
       /\ last'.threw => sink' = sink
       /\ sink' # sink =>
            /\ ~last'.threw
            /\ RecordedInMemory
            /\ sink' = Append(sink, [name |-> last'.name, type |-> last'.kind,
                                     value |-> last'.value, attributes |-> last'.enriched])]_vars

\* Beside a meter whose instruments throw, a set was forwarded and then an add
\* on a persisting counter threw and forwarded nothing.
C30_Witness ==
  /\ last.op = "add" /\ last.threw /\ last.persist
  /\ Len(sink) = 1 /\ sink[1].type = "gauge"

\* The requests that entered the improved middleware and whose response has
\* not been ended.
InFlight == {i \in 1..Len(requests) : requests[i].improved /\ requests[i].ends = 0}

\* C29: under any interleaving of concurrent requests, http_requests_active
\* equals the number of requests that entered the improved middleware and
\* whose response has not yet ended; it is never negative and is 0 once every
\* request has ended.
C29_ActiveRequestsTracked ==
  /\ Exported("updowncounter", <<"http_requests_active">>, <<>>) = Cardinality(InFlight)
  /\ Exported("updowncounter", <<"http_requests_active">>, <<>>) >= 0

----------------------------------------------------------------------------
(* Properties of the improved middleware, the timers, the summaries and the
   collector keys *)

\* The sum of the numbers a function gives to a set of keys.
RECURSIVE SumOver(_, _)
SumOver(f, keys) ==
  IF keys = {} THEN 0
  ELSE LET k == CHOOSE x \in keys : TRUE
       IN f[k] + SumOver(f, keys \ {k})

\* The series of a store that belong to a metric name.
SeriesOf(store, name) == {k \in DOMAIN store : k[2] = name}

\* The requests whose response has been ended.
Ended == {i \in 1..Len(requests) : requests[i].improved /\ requests[i].ends >= 1}

\* C36: in the improved middleware each request contributes exactly once to
\* http_requests_total, http_requests_by_status_total and
\* http_request_duration_seconds, at the end of its response, whatever the
\* interleaving of the requests and however many times res.end is invoked for
\* a response.
C36_OncePerRequest ==
  /\ SumOver(sums, SeriesOf(sums, <<"http_requests_total">>)) = Cardinality(Ended)
  /\ SumOver(sums, SeriesOf(sums, <<"http_requests_by_status_total">>)) = Cardinality(Ended)
  /\ SumOver([k \in DOMAIN recorded |-> Len(recorded[k])],
             SeriesOf(recorded, <<"http_request_duration_seconds">>)) = Cardinality(Ended)

\* The key recordOperation stores an operation under.
OperationKey(n, t) == n \o <<":", t>>

\* C35: in every reachable state of the collector, for each operation name
\* and type the number of stored durations (the _count of its histogram) is
\* its success count plus its error count, the sum of its error-type counters
\* is at most its error count, and reset() empties the three maps together.
C35_CollectorMapsAgree ==
  /\ [](\A n \in OperationNames, t \in OperationTypes :
          LET key == OperationKey(n, t)
              stored == IF HasKey(operationDurations, key)
                        THEN Len(GetKey(operationDurations, key)) ELSE 0
              errors == GetOrZero(operationCounts, key \o <<":", "error">>)
          IN /\ stored = GetOrZero(operationCounts, key \o <<":", "success">>) + errors
             /\ SumOver([e \in ErrorTypes |-> GetOrZero(errorCounts, key \o <<":">> \o e)],
                        ErrorTypes \ {<<>>}) <= errors
             /\ \A i \in 1..Len(operationDurations) :
                  operationDurations[i][1] = key
                    => getOperationDurationHistograms(0)[i].histogramData.count = stored)
  /\ [][last'.op = "reset" =>
          operationDurations' = <<>> /\ operationCounts' = <<>> /\ errorCounts' = <<>>]_vars

\* An operation with one success, one error with a type and one without:
\* three durations, error count 2, one error-type counter of 1.
C35_Witness ==
  LET key == OperationKey(<<"a", ":", "b">>, "query")
  IN /\ HasKey(operationDurations, key) /\ Len(GetKey(operationDurations, key)) = 3
     /\ GetOrZero(operationCounts, key \o <<":", "success">>) = 1
     /\ GetOrZero(operationCounts, key \o <<":", "error">>) = 2
     /\ GetOrZero(errorCounts, key \o <<":", "TypeError">>) = 1

\* The statistics of a snapshot that carry a metric name, a value and the
\* three labels that follow service_name.
Emitted(metric, value, name, type, third) ==
  {i \in 1..Len(snapshot.stats) :
     /\ snapshot.stats[i].name = metric
     /\ snapshot.stats[i].value = value
     /\ Len(snapshot.stats[i].attributes) = 4
     /\ snapshot.stats[i].attributes[2][2] = name
     /\ snapshot.stats[i].attributes[3][2] = <<type>>
     /\ snapshot.stats[i].attributes[4][2] = third}

\* C34: the collector round-trips its keys: after any sequence of
\* recordOperation calls, for every recorded operation name (also one that
\* holds ':'), type and status or error type, getOperationCounters and
\* getErrorCounters emit one counter whose labels are the recorded name, type
\* and status or error type and whose value is the number of calls recorded
\* for them.
C34_KeysRoundTrip ==
  last.op = "getAllMetrics" =>
    \A n \in OperationNames, t \in OperationTypes :
      /\ \A status \in {"success", "error"} :
           LET countKey == OperationKey(n, t) \o <<":", status>>
           IN HasKey(operationCounts, countKey) =>
                Cardinality(Emitted(<<"graphql_operations_total">>,
                                    GetKey(operationCounts, countKey), n, t, <<status>>)) = 1
      /\ \A e \in ErrorTypes \ {<<>>} :
           LET errorKey == OperationKey(n, t) \o <<":">> \o e
           IN HasKey(errorCounts, errorKey) =>
                Cardinality(Emitted(<<"graphql_errors_total">>,
                                    GetKey(errorCounts, errorKey), n, t, e)) = 1

\* The gauge instruments whose callback the meter runs at a scrape.
LiveCallbacks(name) ==
  {i \in 1..Len(instruments) : instruments[i].kind = "gauge" /\ instruments[i].name = name}

\* C32: across any sequence of createGauge, set and dispose calls at most one
\* scrape callback is live per gauge name, each gauge name and label set is
\* observed at most once per scrape, and a value set before dispose() is not
\* reported by a scrape after it.
C32_OneLiveCallback ==
  /\ \A i \in 1..Len(instruments) : Cardinality(LiveCallbacks(instruments[i].name)) <= 1
  /\ last.op = "scrape" =>
       \A i \in DOMAIN scrape.reported :
         /\ instruments[i].epoch < disposed => scrape.reported[i] = <<>>
         /\ \A j, k \in 1..Len(instruments[i].values) :
              LabelSetOf(JSONparse(instruments[i].values[j][1]))
                = LabelSetOf(JSONparse(instruments[i].values[k][1])) => j = k

\* C33: the number of callbacks registered on each process gauge of the
\* improved middleware stays bounded, it does not grow with the ticks of the
\* 100 ms and the 10 s timers, and each scrape observes one value per gauge.
C33_CallbacksBounded ==
  /\ \A g \in ProcessGauges : Len(callbacks[g]) <= 1
  /\ last.op = "scrape" => \A g \in ProcessGauges : Len(scrape.reported[g]) <= 1

\* The invocations of measure and measureAsync on a metric that have finished.
Finished(name) == {i \in 1..Len(timers) : timers[i].handle.name = name /\ timers[i].phase = "done"}

\* C31: measure and measureAsync record exactly one duration sample per
\* invocation, whether the operation returns or throws (resolves or rejects),
\* record it only after the operation has finished, and pass the operation's
\* result or error through to the caller unchanged.
C31_OneSamplePerInvocation ==
  /\ \A n \in MetricNames :
       SumOver([k \in SeriesOf(recorded, prefixMetricName(n)) |-> Len(recorded[k])],
               SeriesOf(recorded, prefixMetricName(n)))
         = Cardinality(Finished(prefixMetricName(n)))
  /\ \A i \in 1..Len(timers) :
       /\ timers[i].phase = "done" => timers[i].result = timers[i].outcome
       /\ timers[i].phase = "awaiting" => timers[i].outcome = NoOutcome
       /\ timers[i].phase # "done" => timers[i].result = NoOutcome

C31_Witness ==
  /\ \E i \in 1..Len(timers) :
       timers[i].async /\ timers[i].phase = "done" /\ timers[i].outcome.kind = "error"
  /\ \E i \in 1..Len(timers) :
       ~timers[i].async /\ timers[i].phase = "done" /\ timers[i].outcome.kind = "error"
  /\ \E i \in 1..Len(timers) : timers[i].async /\ timers[i].phase = "awaiting"

\* The k-th smallest of the observations, counted with repetitions.
IsKthSmallest(v, observations, k) ==
  /\ \E i \in DOMAIN observations : observations[i] = v
  /\ Cardinality({i \in DOMAIN observations : observations[i] < v}) < k
  /\ k <= Cardinality({i \in DOMAIN observations : observations[i] <= v})

\* C37: createSummary reports, for a non-empty list of n observations and a
\* quantile q in (0, 1], the ceil(q*n)-th smallest observation; the reported
\* values do not decrease as q grows; count is n and sum is the sum of the
\* observations; the list passed in is left as it was; an empty list gives
\* the value 0 for every quantile.
C37_NearestRank ==
  /\ [](last.op = "createSummary" =>
          LET data == stat.summaryData
              n == Len(args.observations)
          IN /\ data.count = n
             /\ data.sum = SumSeq(args.observations)
             /\ \A j \in DOMAIN data.quantiles :
                  IF n = 0 THEN data.quantiles[j].value = 0
                  ELSE IsKthSmallest(data.quantiles[j].value, args.observations,
                                     Ceil(data.quantiles[j].quantile * n, 100))
             /\ \A j, k \in DOMAIN data.quantiles :
                  data.quantiles[j].quantile <= data.quantiles[k].quantile
                    => data.quantiles[j].value <= data.quantiles[k].value)
  /\ [][last'.op = "createSummary" => args'.observations = args.observations]_vars

C37_Witness ==
  /\ last.op = "createSummary"
  /\ args.observations = <<5, 0, 2, -1>>
  /\ args.quantiles = <<90, 50>>
  /\ stat.summaryData.quantiles[1].value = 5
  /\ stat.summaryData.quantiles[2].value = 0

====
